---- MODULE Spec2Model ----
(***************************************************************************)
(* Model of the cellular-planning dashboard: the NetworkPlanner            *)
(* coverage-gap / tower-placement heuristic, the grid binning of the three *)
(* pages that bin samples, the API client, the data server and parseCSV.   *)
(*                                                                         *)
(* Numbers.  Coordinates and RSSI values are integers.  A mean is kept as  *)
(* the exact pair (sum, length); a k-means centroid is kept as the exact   *)
(* fraction (xn/d, yn/d).  The code computes the same quantities in IEEE   *)
(* doubles; comparisons of distances are made on the squares, which orders *)
(* them as Math.sqrt does.                                                 *)
(*                                                                         *)
(* Records.  A data set is a sequence of runs: a run [x, y, rssi, def, n]  *)
(* stands for n consecutive identical records; def is the set of fields    *)
(* that are not undefined in the record.                                   *)
(***************************************************************************)
EXTENDS Integers, Sequences, FiniteSets, TLC

VARIABLES
    \* NetworkPlanner component state (NetworkPlanner.tsx 24-28)
    data, loading, towerCount, coverageThreshold, selectedAlgorithm,
    \* The two memoised values of the component (useMemo, 47 and 92)
    coverageGaps, towerRecommendations,
    \* The k-means branch of towerRecommendations run step by step: the
    \* position in the branch, the loop counter iter, and its two locals
    kmPc, kmIter, kmCentroids, kmClusters

kmVars == <<kmPc, kmIter, kmCentroids, kmClusters>>

VARIABLES
    \* The page that is mounted (the router of App.tsx shows one page at a time)
    page,
    \* LocalNetworkPlanner component state (LocalNetworkPlanner.tsx 18-20) and
    \* its memoised networkPoints and coverageGrid (39, 109)
    lnData, lnLoading, lnGridSize, networkPoints, lnCoverageGrid,
    \* IndoorMapper component state (part_001 24-31)
    isRecording, measurements, positionRef

lnVars == <<lnData, lnLoading, lnGridSize, networkPoints, lnCoverageGrid>>
imVars == <<isRecording, measurements, positionRef>>

VARIABLES
    \* API client (api.ts): the calls made so far, each with its HTTP GET and
    \* the promise the method returned
    calls,
    \* Data server (server.js): the files of DATA_DIR and the requests
    \* received so far, each with the position of its handler
    files, requests,
    \* parseCSV (server.js 26-69): its argument and its return value
    csvText, csvRows, csvPc

ioVars == <<calls, files, requests, csvText, csvRows, csvPc>>

VARIABLES
    \* UserAnalysis component state (UserAnalysis.tsx 27-29)
    uaData, uaSummary, uaLoading,
    \* Visualizations component state (App.tsx 111-112)
    vizData, vizLoading,
    \* Overview component state (Overview.tsx 6-7, part_004 6-7)
    ovStats, ovLoading,
    \* WiFiAnalyzer component state (WiFiAnalyzer.tsx 19-21), its request in
    \* flight, and the surroundings: the host of the data server, the way to
    \* the server and navigator.connection of the browser
    wifiInfo, wifiLoading, wifiError, wifiPending, wifiHost, wifiServer, wifiConnection,
    \* the surroundings as they were when the last answer was made
    wifiSeen,
    \* GET /api/data after its read (server.js 109-125): the rows parseCSV
    \* returned, the body sent, and the position of the handler
    fileRows, sentRows, dataPc,
    \* IndoorMapper: the room name typed (part_001 28), the time left on the
    \* interval of the recording effect (37, 65), and, for the statement of
    \* the properties, the time recording has gone without a measurement and
    \* whether the room name was edited in that time
    roomName, timerLeft, waited, editedSince,
    \* WiFiAnalyzer: the time left on the interval of its effect (WiFiAnalyzer.tsx
    \* 96), and, for the statement of the properties, the time since the
    \* effect ran, the calls of fetchWiFiInfo so far, and both as they were
    \* when the page was unmounted
    wifiTimer, wifiClock, wifiStarted, wifiLeft

intervalVars == <<wifiTimer, wifiClock, wifiStarted, wifiLeft>>
recVars == <<roomName, timerLeft, waited, editedSince>>
dataVars == <<fileRows, sentRows, dataPc>>
wifiVars == <<wifiInfo, wifiLoading, wifiError, wifiPending, wifiHost, wifiServer,
              wifiConnection, wifiSeen>>
ovVars == <<ovStats, ovLoading>>
uaVars == <<uaData, uaSummary, uaLoading>>
vizVars == <<vizData, vizLoading>>

\* The state of the pages other than the planners and the indoor mapper, and
\* of the row processing of /api/data
furtherVars == <<uaVars, vizVars, ovVars, wifiVars, dataVars, recVars, intervalVars>>

plannerVars == <<data, loading, towerCount, coverageThreshold, selectedAlgorithm,
                 coverageGaps, towerRecommendations>>

----------------------------------------------------------------------------
\* Bounds of the model

MaxRecords == 3          \* runs in a data set

\* The tower counts tried (the slider goes from 1 to 20, and starts at 5)
TowerCounts == {1, 2, 5}

\* The thresholds tried (the slider goes from -120 to -60 in steps of 5)
Thresholds == {-100, -85}
Algorithms == {"kmeans", "coverage", "density"}

\* The records tried.  Valid ones lie in the cells with origins -2, 0 and 2
\* (the records at x = -1 come in pairs); their RSSI values give a high and a
\* low cell, and a mean of exactly -100 when both share a cell.  The two
\* others are dropped by the filter: an RSSI that is not negative, and an
\* undefined x.
ValidRecords ==
    { [x |-> px, y |-> 0, rssi |-> r, def |-> {"x", "y", "rssi"}, n |-> IF px = -1 THEN 2 ELSE 1] :
        px \in {-1, 0, 2}, r \in {-110, -90} }
InvalidRecords ==
    { [x |-> 0, y |-> 0, rssi |-> 0, def |-> {"x", "y", "rssi"}, n |-> 1],
      [x |-> 0, y |-> 0, rssi |-> -110, def |-> {"y", "rssi"}, n |-> 1] }
Records == ValidRecords \cup InvalidRecords

RECURSIVE SeqsUpTo(_, _)
SeqsUpTo(S, n) ==
    IF n = 0 THEN {<<>>}
    ELSE LET shorter == SeqsUpTo(S, n - 1)
         IN  shorter \cup { Append(s, e) : s \in { t \in shorter : Len(t) = n - 1 }, e \in S }

----------------------------------------------------------------------------
\* Sequence helpers standing for Array.prototype methods

\* Array.prototype.filter
RECURSIVE SelectSeqIdx(_, _, _)
SelectSeqIdx(s, Keep(_), i) ==
    IF i > Len(s) THEN <<>>
    ELSE IF Keep(s[i]) THEN <<s[i]>> \o SelectSeqIdx(s, Keep, i + 1)
    ELSE SelectSeqIdx(s, Keep, i + 1)

\* Array.prototype.sort((a, b) => Key(b) - Key(a)): descending by Key, and
\* stable (ECMAScript 2019): equal keys keep their order
SortDesc(s, Key(_)) ==
    LET n == Len(s)
        rank(i) == Cardinality({ j \in 1..n :
                        \/ Key(s[j]) > Key(s[i])
                        \/ Key(s[j]) = Key(s[i]) /\ j < i }) + 1
    IN  [p \in 1..n |-> s[CHOOSE i \in 1..n : rank(i) = p]]

\* Array.prototype.slice(0, n)
Slice0(s, n) == SubSeq(s, 1, IF n < Len(s) THEN n ELSE Len(s))

Min(a, b) == IF a < b THEN a ELSE b

\* Variant: Math.trunc(v / g) * g, which rounds towards zero
TruncTo(v, g) == IF v >= 0 THEN (v \div g) * g ELSE 0 - (((0 - v) \div g) * g)

\* Math.floor(v / g) * g
FloorTo(v, g) == (v \div g) * g

----------------------------------------------------------------------------
\* Grid binning (NetworkPlanner.tsx 56-71)

\* The rssis array of a cell is kept as runs [rssi, n]: n pushes of rssi
RECURSIVE RssisLen(_)
RssisLen(rssis) ==
    IF rssis = <<>> THEN 0 ELSE rssis[1].n + RssisLen(Tail(rssis))

\* rssis.reduce((a, b) => a + b, 0)
RECURSIVE RssisSum(_)
RssisSum(rssis) ==
    IF rssis = <<>> THEN 0 ELSE rssis[1].rssi * rssis[1].n + RssisSum(Tail(rssis))

\* The Map key `${gridX},${gridY}` of a cell
GridKey(gx, gy) == <<gx, gy>>

\* grid.has(key): the index of the cell in insertion order, 0 when absent
CellIndex(grid, key) ==
    IF \E i \in 1..Len(grid) : GridKey(grid[i].x, grid[i].y) = key
    THEN CHOOSE i \in 1..Len(grid) : GridKey(grid[i].x, grid[i].y) = key
    ELSE 0

\* One pass of the forEach body for a run of identical points
AddPoint(grid, point, g) ==
    LET gridX == FloorTo(point.x, g)
        gridY == FloorTo(point.y, g)
        at == CellIndex(grid, GridKey(gridX, gridY))
        withCell == IF at = 0
                    THEN Append(grid, [x |-> gridX, y |-> gridY, rssis |-> <<>>, count |-> 0])
                    ELSE grid
        idx == IF at = 0 THEN Len(withCell) ELSE at
    IN  [withCell EXCEPT ![idx].rssis = Append(@, [rssi |-> point.rssi, n |-> point.n]),
                         ![idx].count = @ + point.n]

\* locationData.forEach(...) over the Map, cells kept in insertion order
RECURSIVE BuildGridFrom(_, _, _, _)
BuildGridFrom(points, g, i, grid) ==
    IF i > Len(points) THEN grid
    ELSE BuildGridFrom(points, g, i + 1, AddPoint(grid, points[i], g))

BuildGrid(points, g) == BuildGridFrom(points, g, 1, <<>>)

----------------------------------------------------------------------------
\* NetworkPlanner: coverageGaps (NetworkPlanner.tsx 47-89)

gridSize == 2

\* d.x !== undefined && d.y !== undefined && d.rssi !== undefined && d.rssi < 0
IsLocationRecord(d) == {"x", "y", "rssi"} \subseteq d.def /\ d.rssi < 0

LocationData(dataset) == SelectSeqIdx(dataset, IsLocationRecord, 1)

\* avgRssi < t, for avgRssi = sum / len with len > 0
AvgBelow(cell, t) == RssisSum(cell.rssis) < t * RssisLen(cell.rssis)

\* avgRssi < -100 ? 'high' : avgRssi < -90 ? 'medium' : 'low'
PriorityOf(cell) ==
    IF AvgBelow(cell, -100) THEN "high"
    ELSE IF AvgBelow(cell, -90) THEN "medium" ELSE "low"

\* Variant: the comparison with the threshold written as <=
IsGapCellInclusive(cell, threshold) ==
    RssisSum(cell.rssis) <= threshold * RssisLen(cell.rssis)

\* if (avgRssi < coverageThreshold)
IsGapCell(cell, threshold) == AvgBelow(cell, threshold)

GapOf(cell) ==
    [x |-> cell.x, y |-> cell.y,
     avgSum |-> RssisSum(cell.rssis), avgLen |-> RssisLen(cell.rssis),
     count |-> cell.count, priority |-> PriorityOf(cell)]

\* grid.forEach(cell => { if (avgRssi < coverageThreshold) gaps.push(...) })
RECURSIVE GapsFrom(_, _, _)
GapsFrom(grid, threshold, i) ==
    IF i > Len(grid) THEN <<>>
    ELSE IF IsGapCell(grid[i], threshold)
         THEN <<GapOf(grid[i])>> \o GapsFrom(grid, threshold, i + 1)
         ELSE GapsFrom(grid, threshold, i + 1)

GapCount(gap) == gap.count

\* Variant: the gaps returned in Map order, without the sort by count
CoverageGapsUnsorted(dataset, threshold) ==
    IF Len(dataset) = 0 THEN <<>>
    ELSE IF Len(LocationData(dataset)) = 0 THEN <<>>
    ELSE GapsFrom(BuildGrid(LocationData(dataset), gridSize), threshold, 1)

CoverageGaps(dataset, threshold) ==
    IF Len(dataset) = 0 THEN <<>>
    ELSE IF Len(LocationData(dataset)) = 0 THEN <<>>
    ELSE SortDesc(GapsFrom(BuildGrid(LocationData(dataset), gridSize), threshold, 1), GapCount)

----------------------------------------------------------------------------
\* NetworkPlanner: towerRecommendations (NetworkPlanner.tsx 92-202)

\* const priorityOrder = { high: 3, medium: 2, low: 1 }
priorityOrder(p) == CASE p = "high" -> 3 [] p = "medium" -> 2 [] p = "low" -> 1

GapPriorityOrder(gap) == priorityOrder(gap.priority)

\* [...coverageGaps].sort((a, b) => priorityOrder[b.priority] - priorityOrder[a.priority])
SortedByPriority(gaps) == SortDesc(gaps, GapPriorityOrder)

\* A position (xn/d, yn/d); a grid origin has d = 1
PosOf(gap) == [xn |-> gap.x, yn |-> gap.y, d |-> 1]

\* d * d times the squared distance from gap g to position c
Dist2Num(g, c) ==
    (g.x * c.d - c.xn) * (g.x * c.d - c.xn) + (g.y * c.d - c.yn) * (g.y * c.d - c.yn)

\* Math.sqrt(dx^2 + dy^2) < r
Within(g, c, r) == Dist2Num(g, c) < r * r * c.d * c.d

\* dist(g, a) < dist(g, b)
Nearer(g, a, b) == Dist2Num(g, a) * b.d * b.d < Dist2Num(g, b) * a.d * a.d

\* Variant: the comparison dist <= minDist, which keeps the last of the
\* nearest centroids
RECURSIVE ClosestFromLast(_, _, _, _)
ClosestFromLast(g, centroids, idx, best) ==
    IF idx > Len(centroids) THEN best
    ELSE IF best = 0 \/ ~Nearer(g, centroids[best], centroids[idx])
         THEN ClosestFromLast(g, centroids, idx + 1, idx)
         ELSE ClosestFromLast(g, centroids, idx + 1, best)

\* centroids.forEach((centroid, idx) => { if (dist < minDist) ... }): best = 0
\* stands for minDist = Infinity
RECURSIVE ClosestFrom(_, _, _, _)
ClosestFrom(g, centroids, idx, best) ==
    IF idx > Len(centroids) THEN best
    ELSE IF best = 0 \/ Nearer(g, centroids[idx], centroids[best])
         THEN ClosestFrom(g, centroids, idx + 1, idx)
         ELSE ClosestFrom(g, centroids, idx + 1, best)

Closest(g, centroids) == ClosestFrom(g, centroids, 1, 0)

\* The assignment half of a round: clusters[closest].push(gap) for every gap
RECURSIVE AssignFrom(_, _, _, _)
AssignFrom(gaps, centroids, i, clusters) ==
    IF i > Len(gaps) THEN clusters
    ELSE LET c == Closest(gaps[i], centroids)
         IN  AssignFrom(gaps, centroids, i + 1,
                        [clusters EXCEPT ![c] = Append(@, gaps[i])])

Assign(gaps, centroids) ==
    AssignFrom(gaps, centroids, 1, [idx \in 1..Len(centroids) |-> <<>>])

RECURSIVE SumX(_)
SumX(gs) == IF gs = <<>> THEN 0 ELSE gs[1].x + SumX(Tail(gs))

RECURSIVE SumY(_)
SumY(gs) == IF gs = <<>> THEN 0 ELSE gs[1].y + SumY(Tail(gs))

\* Variant: the centroid of an empty cluster is put at the origin
UpdateCentroidsReset(centroids, clusters) ==
    [idx \in 1..Len(centroids) |->
        IF Len(clusters[idx]) > 0
        THEN [xn |-> SumX(clusters[idx]), yn |-> SumY(clusters[idx]), d |-> Len(clusters[idx])]
        ELSE [xn |-> 0, yn |-> 0, d |-> 1]]

\* The update half of a round: a centroid moves to the mean of its cluster,
\* and stays when the cluster is empty
UpdateCentroids(centroids, clusters) ==
    [idx \in 1..Len(centroids) |->
        IF Len(clusters[idx]) > 0
        THEN [xn |-> SumX(clusters[idx]), yn |-> SumY(clusters[idx]), d |-> Len(clusters[idx])]
        ELSE centroids[idx]]

\* for (let i = 0; i < k; i++) centroids.push({ x: sortedGaps[i].x, y: sortedGaps[i].y })
SeedCentroids(gaps, k) ==
    [i \in 1..k |-> PosOf(SortedByPriority(gaps)[i])]

KMeansRounds == 10

\* for (let iter = 0; iter < 10; iter++) { assign; update }
RECURSIVE IterateFrom(_, _, _)
IterateFrom(gaps, centroids, iter) ==
    IF iter < KMeansRounds
    THEN IterateFrom(gaps, UpdateCentroids(centroids, Assign(gaps, centroids)), iter + 1)
    ELSE centroids

Abs(v) == IF v < 0 THEN 0 - v ELSE v

\* coverageGaps.find(g => Math.abs(g.x - c.x) < 1 && Math.abs(g.y - c.y) < 1)?.priority || 'medium'
PriorityNear(gaps, c) ==
    LET hit(i) == Abs(gaps[i].x * c.d - c.xn) < c.d /\ Abs(gaps[i].y * c.d - c.yn) < c.d
    IN  IF \E i \in 1..Len(gaps) : hit(i)
        THEN gaps[CHOOSE i \in 1..Len(gaps) : hit(i) /\ \A j \in 1..(i - 1) : ~hit(j)].priority
        ELSE "medium"

\* coverageGaps.filter(g => dist < 5).length
CountWithin(gaps, c, r) == Cardinality({ i \in 1..Len(gaps) : Within(gaps[i], c, r) })

KMeansTowers(gaps, centroids) ==
    [idx \in 1..Len(centroids) |->
        [id |-> idx, xn |-> centroids[idx].xn, yn |-> centroids[idx].yn, d |-> centroids[idx].d,
         priority |-> PriorityNear(gaps, centroids[idx]),
         estimatedCoverage |-> Min(100, CountWithin(gaps, centroids[idx], 5) * 10)]]

KMeans(gaps, count) ==
    LET k == Min(count, Len(gaps))
    IN  KMeansTowers(gaps, IterateFrom(gaps, SeedCentroids(gaps, k), 0))

\* Variant: the density branch without .slice(0, towerCount)
DensityUnsliced(gaps, count) ==
    LET sortedGaps == SortDesc(gaps, GapCount)
    IN  [idx \in 1..Len(sortedGaps) |->
            [id |-> idx, xn |-> sortedGaps[idx].x, yn |-> sortedGaps[idx].y, d |-> 1,
             priority |-> sortedGaps[idx].priority,
             estimatedCoverage |-> Min(100, sortedGaps[idx].count * 2)]]

\* Variant: the density branch with the comparator a.count - b.count
GapFewness(g) == 0 - g.count

DensityFewestFirst(gaps, count) ==
    LET sortedGaps == Slice0(SortDesc(gaps, GapFewness), count)
    IN  [idx \in 1..Len(sortedGaps) |->
            [id |-> idx, xn |-> sortedGaps[idx].x, yn |-> sortedGaps[idx].y, d |-> 1,
             priority |-> sortedGaps[idx].priority,
             estimatedCoverage |-> Min(100, sortedGaps[idx].count * 2)]]

\* Density branch (152-164)
Density(gaps, count) ==
    LET sortedGaps == Slice0(SortDesc(gaps, GapCount), count)
    IN  [idx \in 1..Len(sortedGaps) |->
            [id |-> idx, xn |-> sortedGaps[idx].x, yn |-> sortedGaps[idx].y, d |-> 1,
             priority |-> sortedGaps[idx].priority,
             estimatedCoverage |-> Min(100, sortedGaps[idx].count * 2)]]

\* coverageGaps.forEach(g => { if (dist < 4) covered.add(`${g.x},${g.y}`) })
CoverRadius == 4

\* Variant: only the chosen gap itself is marked
OwnKey(gaps, gap) == { GridKey(gap.x, gap.y) }

NearKeys(gaps, gap) ==
    { GridKey(gaps[j].x, gaps[j].y) : j \in { i \in 1..Len(gaps) : Within(gaps[i], PosOf(gap), CoverRadius) } }

\* Coverage branch (165-201): the loop over the first min(towerCount, n)
\* entries of sortedGaps, from index i (1-based) with the towers and the
\* covered set built so far
RECURSIVE CoverageFrom(_, _, _, _, _, _)
CoverageFrom(gaps, sortedGaps, count, i, towers, covered) ==
    IF i > Min(count, Len(sortedGaps)) THEN towers
    ELSE LET gap == sortedGaps[i]
             key == GridKey(gap.x, gap.y)
         IN  IF key \notin covered
             THEN CoverageFrom(gaps, sortedGaps, count, i + 1,
                      Append(towers, [id |-> Len(towers) + 1, xn |-> gap.x, yn |-> gap.y, d |-> 1,
                                      priority |-> gap.priority,
                                      estimatedCoverage |-> Min(100, gap.count * 3)]),
                      covered \cup NearKeys(gaps, gap))
             ELSE CoverageFrom(gaps, sortedGaps, count, i + 1, towers, covered)

Coverage(gaps, count) == CoverageFrom(gaps, SortedByPriority(gaps), count, 1, <<>>, {})

TowerRecommendations(gaps, count, algorithm) ==
    IF Len(gaps) = 0 THEN <<>>
    ELSE IF algorithm = "kmeans" THEN KMeans(gaps, count)
    ELSE IF algorithm = "density" THEN Density(gaps, count)
    ELSE Coverage(gaps, count)

----------------------------------------------------------------------------
\* NetworkPlanner: the component as a state machine

\* LocalNetworkPlanner: useState(1.0), in thousandths of a unit
InitialGridSize == 1000

InitialTowerCount == 5
InitialThreshold == -85

InitPlanner ==
    /\ data = <<>>
    /\ loading = TRUE
    /\ towerCount = InitialTowerCount
    /\ coverageThreshold = InitialThreshold
    /\ selectedAlgorithm = "coverage"
    /\ coverageGaps = CoverageGaps(<<>>, InitialThreshold)
    /\ towerRecommendations = TowerRecommendations(<<>>, InitialTowerCount, "coverage")

\* The render that follows a state change: the memoised values whose
\* dependencies changed are recomputed (89, 202)
Render(dataset, threshold, count, algorithm) ==
    /\ coverageGaps' = CoverageGaps(dataset, threshold)
    /\ towerRecommendations' = TowerRecommendations(coverageGaps', count, algorithm)

\* loadData (31-44): api.getData() resolves and the page leaves the spinner
LoadData ==
    /\ page = "planner"
    /\ loading
    /\ \E signalData \in SeqsUpTo(Records, MaxRecords) :
          /\ data' = signalData
          /\ Render(signalData, coverageThreshold, towerCount, selectedAlgorithm)
    /\ loading' = FALSE
    /\ UNCHANGED <<towerCount, coverageThreshold, selectedAlgorithm>>

\* The three controls are rendered once loading is over (227-233, 255-300)
SetTowerCount ==
    /\ ~loading
    /\ \E v \in TowerCounts :
          /\ towerCount' = v
          /\ Render(data, coverageThreshold, v, selectedAlgorithm)
    /\ UNCHANGED <<data, loading, coverageThreshold, selectedAlgorithm>>

SetCoverageThreshold ==
    /\ ~loading
    /\ \E v \in Thresholds :
          /\ coverageThreshold' = v
          /\ Render(data, v, towerCount, selectedAlgorithm)
    /\ UNCHANGED <<data, loading, towerCount, selectedAlgorithm>>

SetSelectedAlgorithm ==
    /\ ~loading
    /\ \E v \in Algorithms :
          /\ selectedAlgorithm' = v
          /\ Render(data, coverageThreshold, towerCount, v)
    /\ UNCHANGED <<data, loading, towerCount, coverageThreshold>>

\* Nothing but the NetworkPlanner component changes
PlannerFrame == UNCHANGED <<kmVars, page, lnVars, imVars, ioVars, furtherVars>>

NextPlanner ==
    \/ LoadData /\ PlannerFrame
    \/ SetTowerCount /\ PlannerFrame
    \/ SetCoverageThreshold /\ PlannerFrame
    \/ SetSelectedAlgorithm /\ PlannerFrame

KMeansIdle == kmPc = "idle" /\ kmIter = 0 /\ kmCentroids = <<>> /\ kmClusters = <<>>

\* The state of the two other pages before they are mounted
LocalIdle ==
    /\ lnData = <<>>
    /\ lnLoading = TRUE
    /\ lnGridSize = InitialGridSize
    /\ networkPoints = <<>>
    /\ lnCoverageGrid = <<>>

IndoorIdle ==
    /\ isRecording = FALSE
    /\ measurements = <<>>
    /\ positionRef = [x |-> 0, y |-> 0, angle |-> 0]

\* No call made, no server running, parseCSV not entered
IoIdle ==
    /\ calls = <<>>
    /\ files = <<>>
    /\ requests = <<>>
    /\ csvText = <<>>
    /\ csvRows = <<>>
    /\ csvPc = "idle"

\* No /api/data body in the making
\* The value of a timer that is not set
NoTimer == 0 - 1

DataIdle == fileRows = <<>> /\ sentRows = <<>> /\ dataPc = "idle"

\* The other pages before they are mounted
MorePagesIdle ==
    /\ uaData = <<>> /\ uaSummary = 0 /\ uaLoading = TRUE
    /\ vizData = <<>> /\ vizLoading = TRUE
    /\ ovStats = [t |-> "null", num |-> 0, str |-> <<>>] /\ ovLoading = TRUE
    /\ wifiInfo = [t |-> "null"] /\ wifiLoading = TRUE /\ wifiError = "<null>"
    /\ wifiPending = [t |-> "none"] /\ wifiSeen = [t |-> "none"]
    /\ wifiHost = [airport |-> "missing", found |-> {}, ssid |-> "", rssi |-> 0,
                   bssid |-> "", channel |-> 0]
    /\ wifiServer = "up"
    /\ wifiConnection = [t |-> "undefined", effectiveType |-> "", downlink |-> 0]

\* No room name typed and no interval set
RecIdle == roomName = "" /\ timerLeft = 0 /\ waited = 0 /\ editedSince = FALSE

\* No interval set by the WiFi analyzer
IntervalIdle ==
    /\ wifiTimer = NoTimer /\ wifiClock = 0 /\ wifiStarted = 0
    /\ wifiLeft = [t |-> "mounted", at |-> 0, started |-> 0]

FurtherIdle == MorePagesIdle /\ DataIdle /\ RecIdle /\ IntervalIdle

vars == <<plannerVars, kmVars, page, lnVars, imVars, ioVars, furtherVars>>

\* The NetworkPlanner page is mounted
InitPlannerPage ==
    /\ InitPlanner /\ KMeansIdle /\ page = "planner" /\ LocalIdle /\ IndoorIdle /\ IoIdle
    /\ FurtherIdle

SpecPlanner == InitPlannerPage /\ [][NextPlanner]_vars

----------------------------------------------------------------------------
\* The k-means branch (95-151) run one statement group at a time, for a
\* rendered page whose algorithm is 'kmeans'

\* A data set of five cells, three in a column and two aside, of falling
\* priority: with three towers the third round leaves a cluster empty
ScatteredData ==
    { << [x |-> 2, y |-> 2, rssi |-> -110, def |-> {"x", "y", "rssi"}, n |-> 1],
         [x |-> 2, y |-> 4, rssi |-> -95, def |-> {"x", "y", "rssi"}, n |-> 1],
         [x |-> 2, y |-> 0, rssi |-> -88, def |-> {"x", "y", "rssi"}, n |-> 1],
         [x |-> 8, y |-> 0, rssi |-> -88, def |-> {"x", "y", "rssi"}, n |-> 1],
         [x |-> 8, y |-> 2, rssi |-> -88, def |-> {"x", "y", "rssi"}, n |-> 1] >> }

\* The tower counts tried with the k-means branch
KMTowerCounts == TowerCounts \cup {3}

InitKMeans ==
    /\ data \in SeqsUpTo(ValidRecords, MaxRecords) \cup ScatteredData
    /\ loading = FALSE
    /\ towerCount \in KMTowerCounts
    /\ coverageThreshold = InitialThreshold
    /\ selectedAlgorithm = "kmeans"
    /\ coverageGaps = CoverageGaps(data, coverageThreshold)
    /\ towerRecommendations = <<>>
    /\ kmPc = "start"
    /\ kmIter = 0
    /\ kmCentroids = <<>>
    /\ kmClusters = <<>>
    /\ page = "planner" /\ LocalIdle /\ IndoorIdle /\ IoIdle /\ FurtherIdle

\* if (coverageGaps.length === 0) return []   (93)
KMNoGaps ==
    /\ kmPc = "start"
    /\ Len(coverageGaps) = 0
    /\ towerRecommendations' = <<>>
    /\ kmPc' = "done"
    /\ UNCHANGED <<kmIter, kmCentroids, kmClusters>>

\* k, sortedGaps and the seeding loop (97-108), then iter = 0
KMSeed ==
    /\ kmPc = "start"
    /\ Len(coverageGaps) # 0
    /\ kmCentroids' = SeedCentroids(coverageGaps, Min(towerCount, Len(coverageGaps)))
    /\ kmIter' = 0
    /\ kmPc' = "loop"
    /\ UNCHANGED <<kmClusters, towerRecommendations>>

\* iter < 10 holds: the assignment half of the round (112-127)
KMAssign ==
    /\ kmPc = "loop"
    /\ kmIter < KMeansRounds
    /\ kmClusters' = Assign(coverageGaps, kmCentroids)
    /\ kmPc' = "update"
    /\ UNCHANGED <<kmIter, kmCentroids, towerRecommendations>>

\* The update half of the round (130-135), then iter++
KMUpdate ==
    /\ kmPc = "update"
    /\ kmCentroids' = UpdateCentroids(kmCentroids, kmClusters)
    /\ kmIter' = kmIter + 1
    /\ kmPc' = "loop"
    /\ UNCHANGED <<kmClusters, towerRecommendations>>

\* iter < 10 fails: the towers are built from the centroids (138-151)
KMReturn ==
    /\ kmPc = "loop"
    /\ ~(kmIter < KMeansRounds)
    /\ towerRecommendations' = KMeansTowers(coverageGaps, kmCentroids)
    /\ kmPc' = "done"
    /\ UNCHANGED <<kmIter, kmCentroids, kmClusters>>

\* Nothing but the locals and the result of the branch changes
KMeansFrame ==
    UNCHANGED <<data, loading, towerCount, coverageThreshold, selectedAlgorithm, coverageGaps,
                page, lnVars, imVars, ioVars, furtherVars>>

NextKMeans ==
    \/ KMNoGaps /\ KMeansFrame
    \/ KMSeed /\ KMeansFrame
    \/ KMAssign /\ KMeansFrame
    \/ KMUpdate /\ KMeansFrame
    \/ KMReturn /\ KMeansFrame

\* The branch is straight-line synchronous code: once entered it runs on
SpecKMeans == InitKMeans /\ [][NextKMeans]_vars /\ WF_vars(NextKMeans)

----------------------------------------------------------------------------
\* LocalNetworkPlanner: networkPoints and coverageGrid
\* (LocalNetworkPlanner.tsx 39-146).  Coordinates and grid sizes of this page
\* and of IndoorMapper are in thousandths of a unit.

MaxLnRuns == 3           \* runs in a data set of LocalNetworkPlanner

\* The grid sizes tried (the slider goes from 0.5 to 5 in steps of 0.5)
LnGridSizes == {500, 1000, 1500}

\* The records tried: with coordinates (one of them with an RSSI the filter
\* drops) and without, in runs long enough to pass the limit of 5000 points
LnRecords ==
    { [x |-> -250, y |-> 0, rssi |-> -90, cell_id |-> 7, timestamp |-> 0,
       def |-> {"x", "y", "rssi"}, n |-> 1],
      [x |-> 600, y |-> 1200, rssi |-> -60, cell_id |-> 7, timestamp |-> 0,
       def |-> {"x", "y", "rssi"}, n |-> 2500],
      [x |-> 600, y |-> 1200, rssi |-> -140, cell_id |-> 7, timestamp |-> 0,
       def |-> {"x", "y", "rssi"}, n |-> 1],
      [x |-> 0, y |-> 0, rssi |-> -90, cell_id |-> 7, timestamp |-> 1250,
       def |-> {"rssi", "cell_id", "timestamp"}, n |-> 1],
      [x |-> 0, y |-> 0, rssi |-> -101, cell_id |-> 9, timestamp |-> 0,
       def |-> {"rssi", "cell_id"}, n |-> 2500],
      [x |-> 0, y |-> 0, rssi |-> -90, cell_id |-> 0,  timestamp |-> 700,
       def |-> {"rssi", "timestamp"}, n |-> 1] }

\* array.length of an array kept as runs
RECURSIVE TotalN(_)
TotalN(runs) == IF runs = <<>> THEN 0 ELSE runs[1].n + TotalN(Tail(runs))

\* array.slice(0, limit) of an array kept as runs
RECURSIVE SliceRuns(_, _)
SliceRuns(runs, limit) ==
    IF runs = <<>> \/ limit <= 0 THEN <<>>
    ELSE IF runs[1].n <= limit
         THEN <<runs[1]>> \o SliceRuns(Tail(runs), limit - runs[1].n)
         ELSE <<[runs[1] EXCEPT !.n = limit]>>

\* d.x !== undefined && d.y !== undefined && d.rssi !== undefined &&
\* d.rssi < 0 && d.rssi > -140   (43-48)
LnHasCoords(d) == {"x", "y", "rssi"} \subseteq d.def /\ d.rssi < 0 /\ d.rssi > -140

\* d.rssi !== undefined && d.rssi < 0 && d.rssi > -140 && d.cell_id !== undefined   (59-64)
LnIsValid(d) == {"rssi", "cell_id"} \subseteq d.def /\ d.rssi < 0 /\ d.rssi > -140

\* .map(d => ({ x: d.x!, y: d.y!, rssi: d.rssi!, ... }))   (49-55)
LnPointsOf(runs) == [i \in 1..Len(runs) |->
    [x |-> runs[i].x, y |-> runs[i].y, rssi |-> runs[i].rssi, n |-> runs[i].n]]

\* The keys of cellGroups in insertion order   (68-75)
RECURSIVE CellIdsFrom(_, _, _)
CellIdsFrom(validData, i, ids) ==
    IF i > Len(validData) THEN ids
    ELSE IF \E p \in 1..Len(ids) : ids[p] = validData[i].cell_id
         THEN CellIdsFrom(validData, i + 1, ids)
         ELSE CellIdsFrom(validData, i + 1, Append(ids, validData[i].cell_id))

\* Math.ceil(Math.sqrt(n))
CeilSqrt(n) == CHOOSE c \in 0..n : c * c >= n /\ (c = 0 \/ (c - 1) * (c - 1) < n)

\* cellPositions.get(cellId)   (78-87), idx counted from 0
CellPosition(ids, cellId) ==
    LET idx == (CHOOSE p \in 1..Len(ids) : ids[p] = cellId) - 1
        cols == CeilSqrt(Len(ids))
    IN  [x |-> (idx % cols) * 5000 - cols * 2500,
         y |-> (idx \div cols) * 5000 - (Len(ids) \div cols) * 2500]

\* d.timestamp ? (d.timestamp % 1000) / 1000 : 0   (93)
TimeVar(d) ==
    IF "timestamp" \in d.def /\ d.timestamp # 0 THEN d.timestamp % 1000 ELSE 0

\* The points generated for a run of n identical records that starts at index
\* offset of validData (90-101).  Their y depends on i % 10, so the run gives
\* up to ten runs of points, in the order in which they first occur.
GeneratedRun(d, offset, pos) ==
    [j \in 1..Min(d.n, 10) |->
        [x |-> pos.x + (TimeVar(d) - 500) * 2,
         y |-> pos.y + (((offset + j - 1) % 10) * 100 - 500) * 2,
         rssi |-> d.rssi,
         n |-> ((d.n - j) \div 10) + 1]]

RECURSIVE GeneratedFrom(_, _, _, _)
GeneratedFrom(validData, ids, i, offset) ==
    IF i > Len(validData) THEN <<>>
    ELSE GeneratedRun(validData[i], offset, CellPosition(ids, validData[i].cell_id))
            \o GeneratedFrom(validData, ids, i + 1, offset + validData[i].n)

SliceLimit == 5000

\* networkPoints (39-106) with the limit of the final slice as a parameter.
\* In the second branch the slice is taken before the map, which gives the
\* same points because the map keeps the index of each record.
NetworkPointsUpTo(dataset, limit) ==
    IF TotalN(dataset) = 0 THEN <<>>
    ELSE LET pointsWithCoords == LnPointsOf(SelectSeqIdx(dataset, LnHasCoords, 1))
             validData == SelectSeqIdx(dataset, LnIsValid, 1)
         IN  IF TotalN(pointsWithCoords) # 0 THEN SliceRuns(pointsWithCoords, limit)
             ELSE IF TotalN(validData) > 0
                  THEN GeneratedFrom(SliceRuns(validData, limit),
                                     CellIdsFrom(validData, 1, <<>>), 1, 0)
                  ELSE <<>>

NetworkPoints(dataset) == NetworkPointsUpTo(dataset, SliceLimit)

\* avgRssi > t, for avgRssi = sum / len with len > 0
AvgAbove(cell, t) == RssisSum(cell.rssis) > t * RssisLen(cell.rssis)

\* The second pass over the grid (136-143)
QualityOf(cell) ==
    IF AvgAbove(cell, -70) THEN "excellent"
    ELSE IF AvgAbove(cell, -85) THEN "good"
    ELSE IF AvgAbove(cell, -100) THEN "fair" ELSE "poor"

\* coverageGrid (109-146)
LnCoverageGrid(points, g) ==
    IF TotalN(points) = 0 THEN <<>>
    ELSE LET grid == BuildGrid(points, g)
         IN  [i \in 1..Len(grid) |->
                [x |-> grid[i].x, y |-> grid[i].y, rssis |-> grid[i].rssis,
                 count |-> grid[i].count,
                 avgSum |-> RssisSum(grid[i].rssis), avgLen |-> RssisLen(grid[i].rssis),
                 quality |-> QualityOf(grid[i])]]

\* loadData (22-35) and the render that follows
LnLoadData ==
    /\ page = "local"
    /\ lnLoading
    /\ \E signalData \in SeqsUpTo(LnRecords, MaxLnRuns) :
          /\ lnData' = signalData
          /\ networkPoints' = NetworkPoints(signalData)
          /\ lnCoverageGrid' = LnCoverageGrid(networkPoints', lnGridSize)
    /\ lnLoading' = FALSE
    /\ UNCHANGED lnGridSize

\* The grid-size slider, rendered when there are points (321-336)
SetGridSize ==
    /\ page = "local"
    /\ ~lnLoading
    /\ TotalN(networkPoints) > 0
    /\ \E v \in LnGridSizes :
          /\ lnGridSize' = v
          /\ lnCoverageGrid' = LnCoverageGrid(networkPoints, v)
    /\ UNCHANGED <<lnData, lnLoading, networkPoints>>

----------------------------------------------------------------------------
\* IndoorMapper (part_001): the simulated walk and its coverage grid

MaxMeasurements == 3     \* measurements recorded and not cleared
MaxWalk == 2             \* ticks are tried while the walk is less than MaxWalk tenths from x = 0

\* The heading is kept in steps of 0.15 rad, the largest turn of one tick
\* (Math.random() - 0.5) * 0.3; a tick turns by one step to either side
Turns == {-1, 1}

\* Math.cos(angle) * speed and Math.sin(angle) * speed for speed = 0.1,
\* rounded to thousandths
WalkStep(k) ==
    LET a == Abs(k)
        dx == CASE a = 0 -> 100 [] a = 1 -> 99 [] a = 2 -> 96 [] a = 3 -> 90
                [] a = 4 -> 83 [] OTHER -> 73
        dy == CASE a = 0 -> 0 [] a = 1 -> 15 [] a = 2 -> 30 [] a = 3 -> 43
                [] a = 4 -> 56 [] OTHER -> 68
    IN  [dx |-> dx, dy |-> IF k < 0 THEN 0 - dy ELSE dy]

\* baseRssi + variation: -85 + (Math.random() - 0.5) * 10   (47-49)
ImRssiValues == {-90, -85}

ImGridSize == 500

\* handleStart (125-128)
handleStart ==
    /\ page = "indoor"
    /\ ~isRecording
    /\ isRecording' = TRUE
    /\ positionRef' = [x |-> 0, y |-> 0, angle |-> 0]
    /\ UNCHANGED measurements

\* The interval callback (37-65)
RecordTick ==
    /\ page = "indoor"
    /\ isRecording
    /\ Len(measurements) < MaxMeasurements
    /\ positionRef.x < MaxWalk * 100
    /\ \E turn \in Turns : \E rssi \in ImRssiValues :
          LET angle == positionRef.angle + turn
              x == positionRef.x + WalkStep(angle).dx
              y == positionRef.y + WalkStep(angle).dy
          IN  /\ positionRef' = [x |-> x, y |-> y, angle |-> angle]
              /\ measurements' = Append(measurements,
                    [x |-> x, y |-> y, rssi |-> rssi, room |-> roomName, n |-> 1])
    /\ UNCHANGED isRecording

\* handleStop (130-132)
handleStop ==
    /\ page = "indoor"
    /\ isRecording
    /\ isRecording' = FALSE
    /\ UNCHANGED <<measurements, positionRef>>

\* handleClear (134-139)
handleClear ==
    /\ page = "indoor"
    /\ measurements' = <<>>
    /\ UNCHANGED <<isRecording, positionRef>>

\* The Map built by coverageGrid (99-115)
ImGrid(ms) == BuildGrid(ms, ImGridSize)

\* coverageGrid (99-123)
ImCoverageGrid(ms) ==
    IF Len(ms) = 0 THEN <<>>
    ELSE [i \in 1..Len(ImGrid(ms)) |->
            [x |-> ImGrid(ms)[i].x, y |-> ImGrid(ms)[i].y,
             avgSum |-> RssisSum(ImGrid(ms)[i].rssis), avgLen |-> RssisLen(ImGrid(ms)[i].rssis),
             count |-> ImGrid(ms)[i].count]]

----------------------------------------------------------------------------
\* The three pages that bin samples, one of them mounted

InitBinning ==
    /\ page \in {"planner", "local", "indoor"}
    /\ InitPlanner /\ KMeansIdle /\ LocalIdle /\ IndoorIdle /\ IoIdle /\ FurtherIdle

\* Nothing but the LocalNetworkPlanner component changes
LocalFrame == UNCHANGED <<plannerVars, kmVars, page, imVars, ioVars, furtherVars>>

\* Nothing but the IndoorMapper component changes
IndoorFrame == UNCHANGED <<plannerVars, kmVars, page, lnVars, ioVars, furtherVars>>

NextBinning ==
    \/ LoadData /\ PlannerFrame
    \/ LnLoadData /\ LocalFrame
    \/ SetGridSize /\ LocalFrame
    \/ handleStart /\ IndoorFrame
    \/ RecordTick /\ IndoorFrame
    \/ handleStop /\ IndoorFrame
    \/ handleClear /\ IndoorFrame

SpecBinning == InitBinning /\ [][NextBinning]_vars

----------------------------------------------------------------------------
\* Reference notions used to state the properties

\* The number of records in a set of runs of the data set
RECURSIVE RecordsIn(_)
RecordsIn(S) ==
    IF S = {} THEN 0
    ELSE LET i == CHOOSE i \in S : TRUE IN data[i].n + RecordsIn(S \ {i})

\* The sum of the RSSI values of the records in a set of runs of the data set
RECURSIVE RssiTotalIn(_)
RssiTotalIn(S) ==
    IF S = {} THEN 0
    ELSE LET i == CHOOSE i \in S : TRUE IN data[i].rssi * data[i].n + RssiTotalIn(S \ {i})

\* The origins of the 2.0-unit cells around the coordinates tried
CellOrigins == { c \in -6..6 : c % 2 = 0 }

\* The runs of the data set that are binned into the cell with origin (cx, cy)
BinnedInto(cx, cy) ==
    { i \in 1..Len(data) :
        /\ {"x", "y", "rssi"} \subseteq data[i].def
        /\ data[i].rssi < 0
        /\ cx <= data[i].x /\ data[i].x < cx + 2
        /\ cy <= data[i].y /\ data[i].y < cy + 2 }

\* The mean RSSI of a nonempty set of runs is strictly below t
MeanBelow(S, t) == S # {} /\ RssiTotalIn(S) < t * RecordsIn(S)

EntriesAt(gaps, cx, cy) == { j \in 1..Len(gaps) : gaps[j].x = cx /\ gaps[j].y = cy }

\* C1: coverageGaps has exactly one entry for each 2.0-unit cell whose mean
\* RSSI over the records binned into it is strictly below coverageThreshold,
\* and no entry for any other cell.
C1_GapsAreExactlyTheWeakCells ==
    /\ \A cx \in CellOrigins : \A cy \in CellOrigins :
          Cardinality(EntriesAt(coverageGaps, cx, cy)) =
              IF MeanBelow(BinnedInto(cx, cy), coverageThreshold) THEN 1 ELSE 0
    /\ \A j \in 1..Len(coverageGaps) :
          coverageGaps[j].x \in CellOrigins /\ coverageGaps[j].y \in CellOrigins

\* A cell holding two different RSSI values whose mean is not below the
\* threshold is no gap, while another cell is one
C1_Witness ==
    /\ ~loading
    /\ Len(coverageGaps) >= 1
    /\ \E cx \in CellOrigins : \E cy \in CellOrigins :
          /\ \E a, b \in BinnedInto(cx, cy) : data[a].rssi # data[b].rssi
          /\ EntriesAt(coverageGaps, cx, cy) = {}

\* C2: the number of proposed towers is at most min(towerCount, number of
\* gaps), exactly that minimum for density and kmeans, and zero when there are
\* no gaps.
C2_TowerCountBound ==
    /\ Len(towerRecommendations) <= Min(towerCount, Len(coverageGaps))
    /\ selectedAlgorithm \in {"density", "kmeans"} =>
          Len(towerRecommendations) = Min(towerCount, Len(coverageGaps))
    /\ Len(coverageGaps) = 0 => Len(towerRecommendations) = 0

\* The coverage strategy returns fewer towers than the minimum after density
\* and kmeans were tried on the same gaps
C2_Witness ==
    /\ selectedAlgorithm = "coverage"
    /\ Len(coverageGaps) >= 2
    /\ towerCount >= 2
    /\ Len(towerRecommendations) < Min(towerCount, Len(coverageGaps))
    /\ Len(TowerRecommendations(coverageGaps, towerCount, "density")) = Min(towerCount, Len(coverageGaps))
    /\ Len(TowerRecommendations(coverageGaps, towerCount, "kmeans")) = Min(towerCount, Len(coverageGaps))

\* The gaps at the place of a tower
GapsAt(tower) ==
    { i \in 1..Len(coverageGaps) :
        /\ coverageGaps[i].x * tower.d = tower.xn
        /\ coverageGaps[i].y * tower.d = tower.yn }

\* The gaps that have a tower of the list at their origin
GapsWithTower ==
    UNION { GapsAt(towerRecommendations[t]) : t \in 1..Len(towerRecommendations) }

\* C15: the density strategy returns min(towerCount, number of gaps) towers,
\* each at the origin of a gap cell of its own and with that gap's priority,
\* in non-increasing order of the cells' sample counts, and no gap cell left
\* without a tower has more samples than one that got a tower.
C15_DensityTakesLargestGaps ==
    selectedAlgorithm = "density" =>
        LET towers == towerRecommendations
        IN  /\ Len(towers) = Min(towerCount, Len(coverageGaps))
            /\ \A t \in 1..Len(towers) :
                  /\ Cardinality(GapsAt(towers[t])) = 1
                  /\ \A i \in GapsAt(towers[t]) :
                        towers[t].priority = coverageGaps[i].priority
            /\ \A t, u \in 1..Len(towers) :
                  t < u => /\ GapsAt(towers[t]) # GapsAt(towers[u])
                           /\ \A i \in GapsAt(towers[t]), j \in GapsAt(towers[u]) :
                                 coverageGaps[i].count >= coverageGaps[j].count
            /\ \A i \in GapsWithTower, j \in (1..Len(coverageGaps)) \ GapsWithTower :
                  coverageGaps[i].count >= coverageGaps[j].count

\* One tower was asked for and the density strategy chose between two gap
\* cells of different sample counts
C15_Witness ==
    /\ selectedAlgorithm = "density"
    /\ towerCount = 1
    /\ Len(towerRecommendations) = 1
    /\ \E i, j \in 1..Len(coverageGaps) : coverageGaps[i].count > coverageGaps[j].count

\* C3: in the coverage strategy the towers come in non-increasing priority
\* order, and among gaps of equal priority one with more samples is considered
\* before one with fewer.
C3_CoverageRankedByPriority ==
    selectedAlgorithm = "coverage" =>
        LET towers == towerRecommendations
            sortedGaps == SortedByPriority(coverageGaps)
        IN  /\ \A i, j \in 1..Len(towers) :
                  i < j => priorityOrder(towers[i].priority) >= priorityOrder(towers[j].priority)
            /\ \A i, j \in 1..Len(sortedGaps) :
                  /\ sortedGaps[i].priority = sortedGaps[j].priority
                  /\ sortedGaps[i].count > sortedGaps[j].count
                  => i < j

\* Two towers of different priority are returned, the first from a gap with
\* fewer samples than the second, and two gaps share a priority but not a count
C3_Witness ==
    /\ selectedAlgorithm = "coverage"
    /\ \E i, j \in 1..Len(towerRecommendations) :
          /\ i < j
          /\ priorityOrder(towerRecommendations[i].priority) > priorityOrder(towerRecommendations[j].priority)
    /\ \E i, j \in 1..Len(coverageGaps) :
          /\ coverageGaps[i].priority = coverageGaps[j].priority
          /\ coverageGaps[i].count > coverageGaps[j].count

\* The gap cells that have one of the sites (origins of gap cells, given by
\* their indices in gaps) at a distance below 4
CoveredBySites(gaps, S) ==
    { i \in 1..Len(gaps) :
        \E s \in S :
            (gaps[i].x - gaps[s].x) * (gaps[i].x - gaps[s].x)
              + (gaps[i].y - gaps[s].y) * (gaps[i].y - gaps[s].y) < 16 }

\* The indices of the gaps at which a tower was placed
TowerSites(gaps, towers) ==
    { s \in 1..Len(gaps) :
        \E t \in 1..Len(towers) :
            towers[t].d = 1 /\ towers[t].xn = gaps[s].x /\ towers[t].yn = gaps[s].y }

\* C4: in the coverage strategy no choice of at most towerCount gap cells as
\* tower sites covers more gap cells than the sites the strategy returns.
C4_CoverageIsMaximal ==
    selectedAlgorithm = "coverage" =>
        \A S \in SUBSET (1..Len(coverageGaps)) :
            Cardinality(S) <= towerCount =>
                Cardinality(CoveredBySites(coverageGaps, S))
                    <= Cardinality(CoveredBySites(coverageGaps,
                                                  TowerSites(coverageGaps, towerRecommendations)))

\* The number of clusters of the current round that hold the gap
ClustersHolding(gap) ==
    { c \in 1..Len(kmClusters) : \E p \in 1..Len(kmClusters[c]) : kmClusters[c][p] = gap }

\* Centroid a is at most as far from the gap as centroid b (strictly nearer
\* when strict), on the exact squared distances
NoFarther(gap, a, b, strict) ==
    LET da == Dist2Num(gap, a) * b.d * b.d
        db == Dist2Num(gap, b) * a.d * a.d
    IN  IF strict THEN da < db ELSE da <= db

C5_Safety ==
    LET k == Min(towerCount, Len(coverageGaps))
        n == Len(coverageGaps)
    IN  /\ kmIter \in 0..10
        /\ kmPc \in {"loop", "update"} => Len(kmCentroids) = k /\ k >= 1
        \* the seeds are k different gap cells, none of lower priority than a
        \* gap that was not taken
        /\ kmPc = "loop" /\ kmIter = 0 =>
              \E S \in SUBSET (1..n) :
                  /\ Cardinality(S) = k
                  /\ { kmCentroids[c] : c \in 1..k } = { PosOf(coverageGaps[i]) : i \in S }
                  /\ \A i \in S : \A j \in (1..n) \ S :
                        priorityOrder(coverageGaps[i].priority) >= priorityOrder(coverageGaps[j].priority)
        \* each round puts every gap in exactly one cluster, that of the
        \* nearest centroid, the lowest index on ties
        /\ kmPc = "update" =>
              /\ Len(kmClusters) = k
              /\ \A i \in 1..n :
                    /\ Cardinality(ClustersHolding(coverageGaps[i])) = 1
                    /\ \A c \in ClustersHolding(coverageGaps[i]) : \A b \in 1..k :
                          NoFarther(coverageGaps[i], kmCentroids[c], kmCentroids[b], b < c)
              /\ \A c \in 1..k : \A p \in 1..Len(kmClusters[c]) :
                    /\ \E i \in 1..n : coverageGaps[i] = kmClusters[c][p]
                    /\ \A q \in 1..Len(kmClusters[c]) : kmClusters[c][q] = kmClusters[c][p] => q = p
        \* the loop is left after exactly 10 rounds, and k towers are returned
        /\ kmPc = "loop" /\ kmIter < 10 => ENABLED KMAssign /\ ~ENABLED KMReturn
        /\ kmPc = "done" =>
              /\ n > 0 => kmIter = 10
              /\ Len(towerRecommendations) = k

\* C5: the k-means strategy terminates on every input: it seeds
\* k = min(towerCount, number of gaps) centroids from the highest-priority
\* gaps, performs exactly 10 assign-then-update rounds, assigns every gap to
\* exactly one cluster in each round (the nearest centroid, the lowest index
\* on ties), and returns exactly k towers.
C5_KMeansTerminates == []C5_Safety /\ <>(kmPc = "done")

\* A round in which a gap is equally near to two centroids, in a run of at
\* least two centroids whose centroids have stopped moving before the tenth
\* round
C5_Witness ==
    /\ kmPc = "update"
    /\ Len(kmCentroids) >= 2
    /\ \E i \in 1..Len(coverageGaps) : \E a, b \in 1..Len(kmCentroids) :
          /\ a < b
          /\ a \in ClustersHolding(coverageGaps[i])
          /\ NoFarther(coverageGaps[i], kmCentroids[a], kmCentroids[b], FALSE)
          /\ NoFarther(coverageGaps[i], kmCentroids[b], kmCentroids[a], FALSE)

\* The points (runs of points) that lie in the square of side g with origin
\* (ox, oy)
PointsInCell(points, ox, oy, g) ==
    { i \in 1..Len(points) :
        /\ ox <= points[i].x /\ points[i].x < ox + g
        /\ oy <= points[i].y /\ points[i].y < oy + g }

\* The number of points in a set of runs of points
RECURSIVE PointCount(_, _)
PointCount(points, S) ==
    IF S = {} THEN 0
    ELSE LET i == CHOOSE i \in S : TRUE IN points[i].n + PointCount(points, S \ {i})

\* The sum of the counts of the cells of a grid
RECURSIVE CountSum(_)
CountSum(grid) == IF grid = <<>> THEN 0 ELSE grid[1].count + CountSum(Tail(grid))

\* The grid holds every one of the points in exactly one cell, the cell of
\* side g whose origin is (floor(x/g)*g, floor(y/g)*g)
BinsExactly(points, grid, g) ==
    /\ \A c, e \in 1..Len(grid) :
          grid[c].x = grid[e].x /\ grid[c].y = grid[e].y => c = e
    /\ \A c \in 1..Len(grid) :
          /\ grid[c].x % g = 0 /\ grid[c].y % g = 0
          /\ grid[c].count = RssisLen(grid[c].rssis)
          /\ grid[c].count = PointCount(points, PointsInCell(points, grid[c].x, grid[c].y, g))
          /\ grid[c].count > 0
    /\ \A i \in 1..Len(points) :
          \E c \in 1..Len(grid) : i \in PointsInCell(points, grid[c].x, grid[c].y, g)
    /\ CountSum(grid) = PointCount(points, 1..Len(points))

\* The records of LocalNetworkPlanner that pass its validity filter, as
\* points, without the limit of 5000
LnFilteredPoints == NetworkPointsUpTo(lnData, TotalN(lnData))

\* The records of LocalNetworkPlanner that pass its validity filter: the one
\* of lines 43-48 when some record passes it, and else the one of lines 59-64
LnFilteredRecords ==
    IF \E i \in 1..Len(lnData) : LnHasCoords(lnData[i])
    THEN SelectSeqIdx(lnData, LnHasCoords, 1)
    ELSE SelectSeqIdx(lnData, LnIsValid, 1)

\* The sum of all RSSI values held by the cells of a grid
RECURSIVE GridRssiTotal(_)
GridRssiTotal(grid) ==
    IF grid = <<>> THEN 0 ELSE RssisSum(grid[1].rssis) + GridRssiTotal(Tail(grid))

C6_PlannerAndIndoor ==
    /\ page = "planner" =>
          BinsExactly(LocationData(data), BuildGrid(LocationData(data), gridSize), gridSize)
    /\ page = "indoor" =>
          /\ BinsExactly(measurements, ImGrid(measurements), ImGridSize)
          /\ Len(ImCoverageGrid(measurements)) = Len(ImGrid(measurements))
          /\ CountSum(ImCoverageGrid(measurements)) = Len(measurements)

\* C6 as stated: every record that passes the page's validity filter is added
\* to exactly one grid cell, the one with origin (floor(x/g)*g, floor(y/g)*g):
\* the counts sum to the number of filtered records, each count is the length
\* of the cell's RSSI list, and no two cells share an origin.
C6_BinningConservesSamples ==
    /\ C6_PlannerAndIndoor
    /\ page = "local" => BinsExactly(LnFilteredPoints, lnCoverageGrid, lnGridSize)

\* C6 amended: in LocalNetworkPlanner this holds of the first 5000 records
\* that pass the filter, which are the only ones binned.
C6_BinningConservesSlicedSamples ==
    /\ C6_PlannerAndIndoor
    /\ page = "local" =>
          /\ BinsExactly(networkPoints, lnCoverageGrid, lnGridSize)
          /\ TotalN(networkPoints) = Min(5000, TotalN(LnFilteredRecords))
          /\ GridRssiTotal(lnCoverageGrid) = RssisSum(SliceRuns(LnFilteredRecords, 5000))
          /\ (\E i \in 1..Len(lnData) : LnHasCoords(lnData[i])) =>
                networkPoints = LnPointsOf(SliceRuns(LnFilteredRecords, 5000))

\* LocalNetworkPlanner has binned 5000 of more than 5000 filtered records
\* into at least two cells
C6_Witness ==
    /\ page = "local"
    /\ ~lnLoading
    /\ TotalN(LnFilteredPoints) > 5000
    /\ Len(lnCoverageGrid) >= 2
    /\ CountSum(lnCoverageGrid) = 5000

----------------------------------------------------------------------------
\* API client (api.ts 52-103)

MaxCalls == 2            \* calls made by the pages

\* JSON values that matter to the client: null, an array of rows, an object,
\* and a body that is no JSON at all (axios then hands over the text)
Null == [kind |-> "null", rows |-> 0]
EmptyArray == [kind |-> "array", rows |-> 0]
Bodies ==
    {EmptyArray, [kind |-> "array", rows |-> 2], [kind |-> "object", rows |-> 0],
     [kind |-> "text", rows |-> 0]}

\* The argument user: left out, the empty string, 'all', or a user folder
NoUser == "<undefined>"
Users == {NoUser, "all", "User1"}

API_BASE == <<"api">>

\* user && user !== 'all'   (85)
NamesUser(user) == user # NoUser /\ user # "" /\ user # "all"

\* The URL each method asks for (55, 65, 75, 85, 96)
Endpoint(method, user) ==
    CASE method = "getSummary" -> API_BASE \o <<"summary">>
      [] method = "getTowers" -> API_BASE \o <<"towers">>
      [] method = "getCoverage" -> API_BASE \o <<"coverage">>
      [] method = "getData" ->
            IF NamesUser(user) THEN API_BASE \o <<"data", user>> ELSE API_BASE \o <<"data">>
      [] OTHER -> API_BASE \o <<"user", user, "summary">>

\* Variant: every catch block returns []
CatchResultArray(method) == EmptyArray

\* What the catch block of each method returns (59, 69, 79, 90, 100)

CatchResult(method) ==
    CASE method = "getSummary" -> Null
      [] method = "getTowers" -> EmptyArray
      [] method = "getCoverage" -> EmptyArray
      [] method = "getData" -> EmptyArray
      [] OTHER -> EmptyArray

\* A method is entered: it builds the URL, starts axios.get and suspends at
\* the await; the caller holds a pending promise
StartCall(method, user) ==
    /\ Len(calls) < MaxCalls
    /\ calls' = Append(calls,
          [method |-> method, user |-> user, endpoint |-> Endpoint(method, user),
           http |-> "pending", body |-> Null, promise |-> "pending", value |-> Null])
    /\ UNCHANGED <<files, requests, csvText, csvRows, csvPc>>

getSummary == StartCall("getSummary", NoUser)

getTowers == StartCall("getTowers", NoUser)

getCoverage == StartCall("getCoverage", NoUser)

getData == \E user \in Users : StartCall("getData", user)

getUserSummary == \E user \in Users \ {NoUser} : StartCall("getUserSummary", user)

\* axios.get fulfils (a 2xx answer): the method returns response.data
GetFulfils ==
    /\ \E i \in 1..Len(calls) : \E body \in Bodies :
          /\ calls[i].http = "pending"
          /\ calls' = [calls EXCEPT ![i].http = "fulfilled", ![i].body = body,
                                    ![i].promise = "fulfilled", ![i].value = body]
    /\ UNCHANGED <<files, requests, csvText, csvRows, csvPc>>

\* axios.get rejects (no answer, or a status outside 2xx): the catch block
\* logs the error and returns the method's empty result
GetRejects ==
    /\ \E i \in 1..Len(calls) :
          /\ calls[i].http = "pending"
          /\ calls' = [calls EXCEPT ![i].http = "rejected",
                                    ![i].promise = "fulfilled",
                                    ![i].value = CatchResult(calls[i].method)]
    /\ UNCHANGED <<files, requests, csvText, csvRows, csvPc>>

\* The pages of the dashboard are not involved in the client's runs
PagesIdle ==
    /\ InitPlanner /\ KMeansIdle /\ page = "planner" /\ LocalIdle /\ IndoorIdle
    /\ FurtherIdle

InitApi == PagesIdle /\ IoIdle

\* Nothing of the pages changes
PagesFrame == UNCHANGED <<plannerVars, kmVars, page, lnVars, imVars, furtherVars>>

NextApi ==
    \/ getSummary /\ PagesFrame
    \/ getTowers /\ PagesFrame
    \/ getCoverage /\ PagesFrame
    \/ getData /\ PagesFrame
    \/ getUserSummary /\ PagesFrame
    \/ GetFulfils /\ PagesFrame
    \/ GetRejects /\ PagesFrame

SpecApi == InitApi /\ [][NextApi]_vars

\* C7: every method of the API client always resolves and never rejects:
\* while its GET is pending its promise is pending; once the GET has failed
\* the promise is fulfilled with the empty result (null for getSummary, an
\* empty array for the four others); once the GET has succeeded the promise
\* is fulfilled with the response body.
C7_ClientAlwaysResolves ==
    \A i \in 1..Len(calls) :
        LET c == calls[i] IN
        /\ c.method \in {"getSummary", "getTowers", "getCoverage", "getData", "getUserSummary"}
        /\ c.promise # "rejected"
        /\ c.http = "pending" => c.promise = "pending"
        /\ c.http = "rejected" =>
              /\ c.promise = "fulfilled"
              /\ c.value = IF c.method = "getSummary"
                           THEN [kind |-> "null", rows |-> 0]
                           ELSE [kind |-> "array", rows |-> 0]
        /\ c.http = "fulfilled" => c.promise = "fulfilled" /\ c.value = c.body

\* A failed getSummary next to a getData whose GET brought two rows
C7_Witness ==
    \E i, j \in 1..Len(calls) :
        /\ calls[i].method = "getSummary" /\ calls[i].http = "rejected"
        /\ calls[i].promise = "fulfilled"
        /\ calls[j].method = "getData" /\ calls[j].http = "fulfilled"
        /\ calls[j].value.rows = 2

----------------------------------------------------------------------------
\* Data server (server.js): the five endpoints that serve files

MaxRequests == 2         \* requests received by the server

\* Paths below DATA_DIR, as the segments given to join (15)
SummaryFile == <<"summary_statistics.json">>
TowersFile == <<"all_users_tower_recommendations.csv">>
CoverageFile == <<"all_users_coverage_summary.csv">>
LocationFile == <<"cellular_merged_with_location.csv">>
CombinedFile == <<"all_users_combined.csv">>
UserDataFile(user) == <<user, "processed_data.csv">>
UserSummaryFile(user) == <<user, "coverage_summary.csv">>

\* The one user folder of the model
UserFolders == {"User1"}

FileNames ==
    {SummaryFile, TowersFile, CoverageFile, LocationFile, CombinedFile}
        \cup {UserDataFile(u) : u \in UserFolders}
        \cup {UserSummaryFile(u) : u \in UserFolders}

\* What a path holds: nothing that can be read, a JSON text, or another text
Contents(f) == IF f = SummaryFile THEN {"absent", "json", "text"} ELSE {"absent", "text"}

\* readFile (19, 73, 83, 103, 109, 136): the content, "absent" when it throws
ReadFile(f) == IF f \in DOMAIN files THEN files[f] ELSE "absent"

\* The :user parameter of a request URL; NoUser is a URL without the segment
RequestUsers == {NoUser, "all", "User1"}

\* The file a handler reads first (19, 73, 83, 96-101, 135)
FirstPath(route, user) ==
    CASE route = "summary" -> SummaryFile
      [] route = "towers" -> TowersFile
      [] route = "coverage" -> CoverageFile
      [] route = "data" -> IF NamesUser(user) THEN UserDataFile(user) ELSE LocationFile
      [] OTHER -> UserSummaryFile(user)

\* Only /api/data without a user probes before it reads (96-106)
Probes(route, user) == route = "data" /\ ~NamesUser(user)

\* JSON.parse (20) throws on a text that is no JSON; parseCSV (74, 84, 110,
\* 137) takes any text
ParseOk(route, content) ==
    IF route = "summary" THEN content = "json" ELSE content # "absent"

\* res.json(...) of the try block (20, 75, 85, 125, 138): the parsed content
\* of the file; /api/data sends its rows cut to 10000 with rssi normalised
OkResponse(route, filePath) ==
    [status |-> 200,
     body |-> [kind |-> IF route = "summary" THEN "json" ELSE "rows",
               file |-> filePath,
               processed |-> (route = "data"),
               fields |-> {}]]

\* res.status(404).json({ error: ... }) of the catch block (22, 77, 87, 128, 140)
ErrorFields(route) == IF route = "data" THEN {"error", "details"} ELSE {"error"}

\* Variant: the catch blocks answer 500, as the one of /api/wifi does (204)
NotFoundAs500(route) == 500

\* res.status(404)
NotFoundStatus(route) == 404

NotFoundResponse(route) ==
    [status |-> NotFoundStatus(route),
     body |-> [kind |-> "object", file |-> <<>>, processed |-> FALSE,
               fields |-> ErrorFields(route)]]

\* The data files that can be read now
ReadableData == {f \in {LocationFile, CombinedFile} : ReadFile(f) # "absent"}

\* The answers 404 sent so far
FailedSoFar ==
    Cardinality({i \in 1..Len(requests) :
                    requests[i].sent # <<>> /\ requests[i].sent[1].status = 404})

\* A request arrives and its handler runs to its first await.  Two fields
\* are kept for the statement of the properties only: steady, for a request
\* that probes, the data files that could be read at every moment since it
\* arrived, and failedBefore, the number of answers 404 sent before it arrived.
Receive(route, user) ==
    /\ Len(requests) < MaxRequests
    /\ requests' = Append(requests,
          [route |-> route, user |-> user,
           pc |-> IF Probes(route, user) THEN "probe" ELSE "read",
           filePath |-> FirstPath(route, user),
           data |-> "absent",
           sent |-> <<>>,
           steady |-> IF Probes(route, user) THEN ReadableData ELSE {},
           failedBefore |-> FailedSoFar])
    /\ UNCHANGED <<files, calls, csvText, csvRows, csvPc>>

\* app.get('/api/summary') (17-24)
RouteSummary == Receive("summary", NoUser)

\* app.get('/api/towers') (71-79)
RouteTowers == Receive("towers", NoUser)

\* app.get('/api/coverage') (81-89)
RouteCoverage == Receive("coverage", NoUser)

\* app.get('/api/data/:user?') (91-130)
RouteData == \E user \in RequestUsers : Receive("data", user)

\* app.get('/api/user/:user/summary') (132-142)
RouteUserSummary == \E user \in RequestUsers \ {NoUser} : Receive("usersummary", user)

\* The probe of /api/data completes (102-106): on a throw the handler turns
\* to the combined file; then it starts the read of line 109
ProbeCompletes ==
    /\ \E i \in 1..Len(requests) :
          /\ requests[i].pc = "probe"
          /\ requests' = [requests EXCEPT
                ![i].pc = "read",
                ![i].filePath = IF ReadFile(LocationFile) # "absent"
                                THEN LocationFile ELSE CombinedFile]
    /\ UNCHANGED <<files, calls, csvText, csvRows, csvPc>>

\* The read of the handler completes (19, 73, 83, 109, 136) and the handler
\* runs to its end: it parses and answers, or lands in its catch block
ReadCompletes ==
    /\ \E i \in 1..Len(requests) :
          LET r == requests[i]
              content == ReadFile(r.filePath)
          IN  /\ r.pc = "read"
              /\ requests' = [requests EXCEPT
                    ![i].pc = "done",
                    ![i].data = content,
                    ![i].sent = IF ParseOk(r.route, content)
                                THEN Append(r.sent, OkResponse(r.route, r.filePath))
                                ELSE Append(r.sent, NotFoundResponse(r.route))]
    /\ UNCHANGED <<files, calls, csvText, csvRows, csvPc>>

\* Another process writes or removes a file of DATA_DIR
FsChange ==
    /\ \E f \in FileNames : \E c \in Contents(f) \ {files[f]} :
          /\ files' = [files EXCEPT ![f] = c]
          /\ requests' = [i \in 1..Len(requests) |->
                IF requests[i].pc # "done" /\ c = "absent"
                THEN [requests[i] EXCEPT !.steady = @ \ {f}]
                ELSE requests[i]]
    /\ UNCHANGED <<calls, csvText, csvRows, csvPc>>

\* The server starts on a DATA_DIR in any condition (208-211)
InitServer ==
    /\ PagesIdle
    /\ calls = <<>>
    /\ files \in [FileNames -> {"absent", "json", "text"}]
    /\ \A f \in FileNames : files[f] \in Contents(f)
    /\ requests = <<>>
    /\ csvText = <<>> /\ csvRows = <<>> /\ csvPc = "idle"

NextServer ==
    \/ RouteSummary /\ PagesFrame
    \/ RouteTowers /\ PagesFrame
    \/ RouteCoverage /\ PagesFrame
    \/ RouteData /\ PagesFrame
    \/ RouteUserSummary /\ PagesFrame
    \/ ProbeCompletes /\ PagesFrame
    \/ ReadCompletes /\ PagesFrame
    \/ FsChange /\ PagesFrame

SpecServer == InitServer /\ [][NextServer]_vars

\* The requests to /api/data without a user segment, or with user 'all',
\* that have been answered
AnsweredDataRequests ==
    {i \in 1..Len(requests) :
        /\ requests[i].route = "data"
        /\ requests[i].user \in {NoUser, "all"}
        /\ requests[i].pc = "done"}

\* C8: GET /api/data with no user segment, or with user 'all', serves the
\* rows of cellular_merged_with_location.csv whenever that file can be read,
\* and answers 404 only when neither that file nor all_users_combined.csv
\* can be read, also when files appear or disappear between the probe and
\* the read.  "Can be read" is taken in the sense most favourable to the
\* code: the file could be read at every moment of the request.
C8_DataFallback ==
    \A i \in AnsweredDataRequests :
        LET r == requests[i] IN
        /\ Len(r.sent) = 1
        /\ <<"cellular_merged_with_location.csv">> \in r.steady =>
              /\ r.sent[1].status = 200
              /\ r.sent[1].body.file = <<"cellular_merged_with_location.csv">>
        /\ r.sent[1].status = 404 => r.steady = {}

\* The data a file endpoint is to answer with: the file its handler read
ServedFiles(r) ==
    CASE r.route = "summary" -> {<<"summary_statistics.json">>}
      [] r.route = "towers" -> {<<"all_users_tower_recommendations.csv">>}
      [] r.route = "coverage" -> {<<"all_users_coverage_summary.csv">>}
      [] r.route = "usersummary" -> {<<r.user, "coverage_summary.csv">>}
      [] r.route = "data" /\ r.user \in {NoUser, "all"} ->
            {<<"cellular_merged_with_location.csv">>, <<"all_users_combined.csv">>}
      [] OTHER -> {<<r.user, "processed_data.csv">>}

----------------------------------------------------------------------------
\* parseCSV (server.js 26-69)

MaxCsvLen == 5           \* symbols in a CSV text

\* A text is a sequence of symbols.  A symbol is one character, or the name
\* __proto__ taken as a whole.
ProtoName == "__proto__"
CsvChars == {"a", "1", ",", "\"", "\n", " ", ProtoName}

\* The white space String.prototype.trim removes
IsSpace(c) == c \in {" ", "\n", "\t", "\r"}

RECURSIVE TrimStart(_)
TrimStart(s) == IF s # <<>> /\ IsSpace(Head(s)) THEN TrimStart(Tail(s)) ELSE s

RECURSIVE TrimEnd(_)
TrimEnd(s) ==
    IF s # <<>> /\ IsSpace(s[Len(s)]) THEN TrimEnd(SubSeq(s, 1, Len(s) - 1)) ELSE s

\* String.prototype.trim
Trim(s) == TrimEnd(TrimStart(s))

\* String.prototype.split with a one-character separator, from position j
\* on with the piece current begun
RECURSIVE SplitFrom(_, _, _, _)
SplitFrom(s, sep, j, current) ==
    IF j > Len(s) THEN <<current>>
    ELSE IF s[j] = sep THEN <<current>> \o SplitFrom(s, sep, j + 1, <<>>)
    ELSE SplitFrom(s, sep, j + 1, Append(current, s[j]))

Split(s, sep) == SplitFrom(s, sep, 1, <<>>)

\* lines[0].split(',').map(h => h.trim())   (30)
Headers(line) == [i \in 1..Len(Split(line, ",")) |-> Trim(Split(line, ",")[i])]

\* The loop over the characters of a line (40-51), from j on
RECURSIVE ValuesFrom(_, _, _, _)
ValuesFrom(line, j, current, inQuotes) ==
    IF j > Len(line) THEN <<Trim(current)>>
    ELSE IF line[j] = "\"" THEN ValuesFrom(line, j + 1, current, ~inQuotes)
    ELSE IF line[j] = "," /\ ~inQuotes
         THEN <<Trim(current)>> \o ValuesFrom(line, j + 1, <<>>, inQuotes)
    ELSE ValuesFrom(line, j + 1, Append(current, line[j]), inQuotes)

\* values of a line (36-51)
Values(line) == ValuesFrom(line, 1, <<>>, FALSE)

\* .replace(/^"|"$/g, '')   (55)
StripQuotes(v) ==
    LET a == IF v # <<>> /\ Head(v) = "\"" THEN Tail(v) ELSE v
    IN  IF a # <<>> /\ a[Len(a)] = "\"" THEN SubSeq(a, 1, Len(a) - 1) ELSE a

\* (values[idx] || '').trim().replace(/^"|"$/g, '')   (55)
ValAt(values, idx) ==
    StripQuotes(Trim(IF idx <= Len(values) THEN values[idx] ELSE <<>>))

Digits == {"0", "1", "2", "3", "4", "5", "6", "7", "8", "9"}

DigitValue(c) ==
    CASE c = "0" -> 0 [] c = "1" -> 1 [] c = "2" -> 2 [] c = "3" -> 3 [] c = "4" -> 4
      [] c = "5" -> 5 [] c = "6" -> 6 [] c = "7" -> 7 [] c = "8" -> 8 [] OTHER -> 9

\* !isNaN(val) && val !== '' (59), for a val without sign, point or exponent
IsNumeric(val) ==
    /\ Trim(val) # <<>>
    /\ \A i \in 1..Len(Trim(val)) : Trim(val)[i] \in Digits

\* parseFloat(val) (60) of such a val
RECURSIVE ParseFloat(_)
ParseFloat(val) ==
    IF Trim(val) = <<>> THEN 0
    ELSE ParseFloat(SubSeq(Trim(val), 1, Len(Trim(val)) - 1)) * 10
            + DigitValue(Trim(val)[Len(Trim(val))])

JsNull == [t |-> "null", num |-> 0, str |-> <<>>]

\* The value stored for val (57-63)
Convert(val) ==
    IF \/ val = <<>>
       \/ val = <<"n", "u", "l", "l">>
       \/ val = <<"u", "n", "d", "e", "f", "i", "n", "e", "d">>
    THEN JsNull
    ELSE IF IsNumeric(val) THEN [t |-> "number", num |-> ParseFloat(val), str |-> <<>>]
    ELSE [t |-> "string", num |-> 0, str |-> val]

\* row[header] = value on a plain object (58, 60, 62): the own properties
\* afterwards.  Object.prototype has a setter for __proto__; an assignment
\* to that name runs the setter and creates no property.
SetKey(row, header, value) ==
    IF header = <<ProtoName>> THEN row
    ELSE [k \in DOMAIN row \cup {header} |-> IF k = header THEN value ELSE row[k]]

\* headers.forEach (54-64), from idx on
RECURSIVE RowFrom(_, _, _, _)
RowFrom(headers, values, idx, row) ==
    IF idx > Len(headers) THEN row
    ELSE RowFrom(headers, values, idx + 1,
                 SetKey(row, headers[idx], Convert(ValAt(values, idx))))

\* const row = {} ... rows.push(row)   (53-65)
Row(headers, values) == RowFrom(headers, values, 1, <<>>)

\* parseCSV (26-69)
parseCSV(text) ==
    LET lines == Split(Trim(text), "\n")
    IN  IF Len(lines) = 0 THEN <<>>
        ELSE [i \in 1..(Len(lines) - 1) |-> Row(Headers(lines[1]), Values(lines[i + 1]))]

\* parseCSV is called with the text of a file that was read (74, 84, 110, 137)
InitCSV ==
    /\ PagesIdle
    /\ calls = <<>> /\ files = <<>> /\ requests = <<>>
    /\ csvText \in SeqsUpTo(CsvChars, MaxCsvLen)
    /\ csvRows = <<>>
    /\ csvPc = "call"

ParseCSV ==
    /\ csvPc = "call"
    /\ csvRows' = parseCSV(csvText)
    /\ csvPc' = "return"
    /\ UNCHANGED <<csvText, calls, files, requests>>

NextCSV == ParseCSV /\ PagesFrame

SpecCSV == InitCSV /\ [][NextCSV]_vars

\* Reference notions for parseCSV, in terms of positions in the text

\* The k-th smallest element of a set of positions; 0 for k = 0
CutAt(cuts, k) ==
    IF k = 0 THEN 0 ELSE CHOOSE p \in cuts : Cardinality({q \in cuts : q < p}) = k - 1

\* The pieces of s between the positions cuts
Pieces(s, cuts) ==
    [k \in 1..(Cardinality(cuts) + 1) |->
        SubSeq(s, CutAt(cuts, k - 1) + 1,
               IF k > Cardinality(cuts) THEN Len(s) ELSE CutAt(cuts, k) - 1)]

\* s without the white space before its first and after its last other symbol
Stripped(s) ==
    LET inked == {i \in 1..Len(s) : s[i] \notin {" ", "\n", "\t", "\r"}}
    IN  IF inked = {} THEN <<>>
        ELSE SubSeq(s, CHOOSE i \in inked : \A j \in inked : i <= j,
                       CHOOSE i \in inked : \A j \in inked : i >= j)

\* The lines of a text
LinesOf(text) ==
    Pieces(Stripped(text), {i \in 1..Len(Stripped(text)) : Stripped(text)[i] = "\n"})

\* The header names of a text, in order
HeaderNames(text) ==
    LET line == LinesOf(text)[1]
        names == Pieces(line, {i \in 1..Len(line) : line[i] = ","})
    IN  [m \in 1..Len(names) |-> Stripped(names[m])]

NotQuote(c) == c # "\""

\* The fields of a line: the pieces between the commas that are outside
\* double quotes, without the quotes
FieldsOf(line) ==
    LET quotesBefore(j) == Cardinality({i \in 1..(j - 1) : line[i] = "\""})
        commas == {j \in 1..Len(line) : line[j] = "," /\ quotesBefore(j) % 2 = 0}
        pieces == Pieces(line, commas)
    IN  [m \in 1..Len(pieces) |-> Stripped(SelectSeq(pieces[m], NotQuote))]

\* rows is what the property asks of the parse of text
QuoteAwareRows(text, rows) ==
    LET lines == LinesOf(text)
        names == HeaderNames(text)
    IN  /\ Len(rows) = Len(lines) - 1
        /\ \A k \in 1..Len(rows) :
              /\ DOMAIN rows[k] = {names[m] : m \in 1..Len(names)}
              /\ \A key \in DOMAIN rows[k] :
                    \A i \in 1..Len(rows[k][key].str) : rows[k][key].str[i] # "\""
              /\ \A m \in 1..Len(names) :
                    (\A n \in (m + 1)..Len(names) : names[n] # names[m]) =>
                        IF m <= Len(FieldsOf(lines[k + 1]))
                        THEN rows[k][names[m]] = Convert(FieldsOf(lines[k + 1])[m])
                        ELSE rows[k][names[m]] = [t |-> "null", num |-> 0, str |-> <<>>]

\* C10: parseCSV is quote-aware: for every CSV text it returns one row per
\* line after the header line, in file order, each row having exactly the
\* header names as keys; a comma inside a double-quoted field does not split
\* the field, the quotes are not part of the value, and a field missing at
\* the end of a line becomes null.
C10_ParseCSVQuoteAware ==
    csvPc = "return" => QuoteAwareRows(csvText, csvRows)

\* The same for the texts none of whose columns is named __proto__
ParseCSVQuoteAwareOtherwise ==
    (csvPc = "return" /\ \A m \in 1..Len(HeaderNames(csvText)) :
                            HeaderNames(csvText)[m] # <<"__proto__">>)
        => QuoteAwareRows(csvText, csvRows)

\* A parsed text with a quoted comma in its one data line
QuotedCommaParsed ==
    /\ csvPc = "return"
    /\ csvText = <<"a", "\n", "\"", ",", "\"">>
    /\ csvRows = <<[k \in {<<"a">>} |-> [t |-> "string", num |-> 0, str |-> <<",">>]]>>

----------------------------------------------------------------------------
\* The statistics of the pages: UserAnalysis.tsx, Visualizations (App.tsx),
\* LocalNetworkPlanner.tsx and IndoorMapper (part_001)

MaxStatRecords == 3      \* records in the data a statistics page loads

JsUndefined == [t |-> "undefined", num |-> 0, str |-> <<>>]

JsNumber(n) == [t |-> "number", num |-> n, str |-> <<>>]

\* A body_position that is null or absent in the record
NoPosition == "<null>"

\* The records of /api/data a statistics page is tried with: rssi is a number,
\* null or absent; body_position is a text, or null
StatRecords ==
    { [body_position |-> "Hand", rssi |-> JsNumber(-60)],
      [body_position |-> "Hand", rssi |-> JsNumber(-70)],
      [body_position |-> "Hand", rssi |-> JsNumber(-85)],
      [body_position |-> "Hand", rssi |-> JsNumber(-100)],
      [body_position |-> "Hand", rssi |-> JsNumber(-120)],
      [body_position |-> " hand ", rssi |-> JsNumber(-70)],
      [body_position |-> "handbag", rssi |-> JsNumber(-90)],
      [body_position |-> "Bag", rssi |-> JsNumber(-60)],
      [body_position |-> "Bag", rssi |-> JsNumber(-100)],
      [body_position |-> "Bag", rssi |-> JsNull],
      [body_position |-> "Bag", rssi |-> JsUndefined],
      [body_position |-> "wrist", rssi |-> JsNumber(-85)],
      [body_position |-> NoPosition, rssi |-> JsNumber(-85)],
      [body_position |-> NoPosition, rssi |-> JsNull],
      [body_position |-> "", rssi |-> JsNumber(-70)] }

\* The number a relational operator compares: null is 0
ToNumber(v) == IF v.t = "number" THEN v.num ELSE 0

\* v > n and v <= n of JavaScript; false when v is undefined (NaN)
JsGreater(v, n) == v.t # "undefined" /\ ToNumber(v) > n

JsAtMost(v, n) == v.t # "undefined" /\ ToNumber(v) <= n

\* The four filters (UserAnalysis.tsx 146-149, App.tsx 183-186,
\* LocalNetworkPlanner.tsx 154-157, part_001 89-92)
IsExcellent(v) == JsGreater(v, -70)

IsGoodUnbounded(v) == JsGreater(v, -85)

IsGood(v) == JsGreater(v, -85) /\ JsAtMost(v, -70)

IsFair(v) == JsGreater(v, -100) /\ JsAtMost(v, -85)

IsPoor(v) == JsAtMost(v, -100)

\* data.filter(...).length
RECURSIVE CountWhere(_, _)
CountWhere(flags, i) ==
    IF i > Len(flags) THEN 0
    ELSE (IF flags[i] THEN 1 ELSE 0) + CountWhere(flags, i + 1)

\* signalQuality (UserAnalysis.tsx 144-152)
signalQuality(d) ==
    [ excellent |-> CountWhere([i \in 1..Len(d) |->
                        d[i].rssi # JsUndefined /\ IsExcellent(d[i].rssi)], 1),
      good      |-> CountWhere([i \in 1..Len(d) |->
                        d[i].rssi # JsUndefined /\ IsGood(d[i].rssi)], 1),
      fair      |-> CountWhere([i \in 1..Len(d) |->
                        d[i].rssi # JsUndefined /\ IsFair(d[i].rssi)], 1),
      poor      |-> CountWhere([i \in 1..Len(d) |->
                        d[i].rssi # JsUndefined /\ IsPoor(d[i].rssi)], 1),
      total     |-> CountWhere([i \in 1..Len(d) |-> d[i].rssi # JsUndefined], 1) ]

\* points.filter(...).length, for points kept as runs of equal points
RECURSIVE RunsWhere(_, _, _)
RunsWhere(points, flags, i) ==
    IF i > Len(points) THEN 0
    ELSE (IF flags[i] THEN points[i].n ELSE 0) + RunsWhere(points, flags, i + 1)

\* coverageStats (LocalNetworkPlanner.tsx 149-179); avgRssi and
\* coveragePercent are kept as fractions
LnCoverageStats(points) ==
    IF TotalN(points) = 0
    THEN [ excellent |-> 0, good |-> 0, fair |-> 0, poor |-> 0,
           avgRssi |-> [sum |-> 0, len |-> 1],
           coveragePercent |-> [num |-> 0, den |-> 1], total |-> 0 ]
    ELSE LET excellent == RunsWhere(points, [i \in 1..Len(points) |->
                              IsExcellent(JsNumber(points[i].rssi))], 1)
             good == RunsWhere(points, [i \in 1..Len(points) |->
                              IsGood(JsNumber(points[i].rssi))], 1)
             fair == RunsWhere(points, [i \in 1..Len(points) |->
                              IsFair(JsNumber(points[i].rssi))], 1)
             poor == RunsWhere(points, [i \in 1..Len(points) |->
                              IsPoor(JsNumber(points[i].rssi))], 1)
         IN  [ excellent |-> excellent, good |-> good, fair |-> fair, poor |-> poor,
               avgRssi |-> [sum |-> RssisSum(points), len |-> TotalN(points)],
               coveragePercent |-> [num |-> (excellent + good) * 100,
                                    den |-> TotalN(points)],
               total |-> TotalN(points) ]

\* stats (part_001 87-96); avgRssi is kept as a fraction
ImStats(ms) ==
    [ total     |-> Len(ms),
      excellent |-> CountWhere([i \in 1..Len(ms) |-> IsExcellent(JsNumber(ms[i].rssi))], 1),
      good      |-> CountWhere([i \in 1..Len(ms) |-> IsGood(JsNumber(ms[i].rssi))], 1),
      fair      |-> CountWhere([i \in 1..Len(ms) |-> IsFair(JsNumber(ms[i].rssi))], 1),
      poor      |-> CountWhere([i \in 1..Len(ms) |-> IsPoor(JsNumber(ms[i].rssi))], 1),
      avgRssi   |-> IF Len(ms) > 0 THEN [sum |-> RssisSum(ms), len |-> Len(ms)]
                    ELSE [sum |-> 0, len |-> 1] ]

\* The coverage rows /api/coverage may answer with, as a number of rows
CoverageRowCounts == {0, 49, 51}

\* loadData of UserAnalysis (31-43): getData, then getCoverage cut to 50 rows
UaLoadData ==
    /\ page = "users"
    /\ uaLoading
    /\ \E signalData \in SeqsUpTo(StatRecords, MaxStatRecords) : uaData' = signalData
    /\ \E coverage \in CoverageRowCounts : uaSummary' = Min(coverage, 50)
    /\ uaLoading' = FALSE

\* loadData of Visualizations (App.tsx 114-122)
VizLoadData ==
    /\ page = "viz"
    /\ vizLoading
    /\ \E signalData \in SeqsUpTo(StatRecords, MaxStatRecords) : vizData' = signalData
    /\ vizLoading' = FALSE

UaFrame == UNCHANGED <<plannerVars, kmVars, page, lnVars, imVars, ioVars, vizVars, ovVars, wifiVars, dataVars, recVars,
             intervalVars>>

VizFrame == UNCHANGED <<plannerVars, kmVars, page, lnVars, imVars, ioVars, uaVars, ovVars, wifiVars, dataVars, recVars,
             intervalVars>>

OvFrame == UNCHANGED <<plannerVars, kmVars, page, lnVars, imVars, ioVars, uaVars, vizVars, wifiVars, dataVars, recVars,
             intervalVars>>

StatPages == {"local", "indoor", "users", "viz", "overview", "overview4"}

\* One of the pages with statistics is mounted
InitStats ==
    /\ page \in StatPages
    /\ InitPlanner /\ KMeansIdle /\ LocalIdle /\ IndoorIdle /\ IoIdle /\ FurtherIdle

\* The summary statistics /api/summary is tried with: the fields of
\* SummaryStats (api.ts 6-17), mean_rssi and median_rssi in thousandths of a dBm
SummaryFields ==
    { "total_records", "unique_cell_ids", "mean_rssi", "median_rssi",
      "weak_signal_count", "weak_signal_percent", "good_signal_count",
      "good_signal_percent", "recommended_towers", "coverage_area_percent" }

SummaryOf(total, cells, mean) ==
    [ t |-> "object",
      fields |-> [f \in SummaryFields |->
                    CASE f = "total_records" -> total
                      [] f = "unique_cell_ids" -> cells
                      [] f = "mean_rssi" -> mean
                      [] f = "median_rssi" -> JsNumber(-88000)
                      [] OTHER -> JsNumber(12)] ]

JsEmptyString == [t |-> "string", num |-> 0, str |-> <<>>]

\* What response.data of GET /api/summary may be
Summaries ==
    { SummaryOf(JsNumber(184142), JsNumber(353), JsNumber(-90125)),
      SummaryOf(JsNumber(1200), JsNumber(1353), JsNumber(-85500)),
      SummaryOf(JsNumber(0), JsNumber(7), JsUndefined),
      SummaryOf(JsUndefined, JsNumber(7), JsNumber(-101004)),
      JsEmptyString }

\* loadData of Overview (Overview.tsx 9-16, part_004 9-16): getSummary yields
\* response.data, or null when the request failed (api.ts 53-61)
OvLoadData ==
    /\ page \in {"overview", "overview4"}
    /\ ovLoading
    /\ \E d \in Summaries \cup {JsNull} : ovStats' = d
    /\ ovLoading' = FALSE

NextStats ==
    \/ LnLoadData /\ LocalFrame
    \/ SetGridSize /\ LocalFrame
    \/ handleStart /\ IndoorFrame
    \/ RecordTick /\ IndoorFrame
    \/ handleStop /\ IndoorFrame
    \/ handleClear /\ IndoorFrame
    \/ UaLoadData /\ UaFrame
    \/ VizLoadData /\ VizFrame
    \/ OvLoadData /\ OvFrame

SpecStats == InitStats /\ [][NextStats]_vars

\* The bucket a number belongs to, by the fixed thresholds
QualityClass(n) ==
    CASE n > -70 -> "excellent"
      [] n > -85 /\ n <= -70 -> "good"
      [] n > -100 /\ n <= -85 -> "fair"
      [] OTHER -> "poor"

\* How many of the values (with multiplicities) are of a class
RECURSIVE ClassCount(_, _, _, _)
ClassCount(values, counts, class, i) ==
    IF i > Len(values) THEN 0
    ELSE (IF QualityClass(values[i]) = class THEN counts[i] ELSE 0)
            + ClassCount(values, counts, class, i + 1)

\* A record of bucket counts gives each value to its one class
Partitions(s, values, counts) ==
    /\ s.excellent = ClassCount(values, counts, "excellent", 1)
    /\ s.good = ClassCount(values, counts, "good", 1)
    /\ s.fair = ClassCount(values, counts, "fair", 1)
    /\ s.poor = ClassCount(values, counts, "poor", 1)
    /\ s.excellent + s.good + s.fair + s.poor = s.total

\* The records of the User Analysis data that have an rssi
UaWithRssi == SelectSeq(uaData, LAMBDA d : d.rssi # JsUndefined)

\* C11: on the Local Network Planner, the Indoor Mapper and the User Analysis
\* page, every RSSI value considered is counted in exactly one of the buckets
\* excellent (> -70), good (> -85 and <= -70), fair (> -100 and <= -85) and
\* poor (<= -100), so the four counts add up to the reported total.
C11_BucketsPartition ==
    /\ page = "local" =>
          /\ Partitions(LnCoverageStats(networkPoints),
                        [i \in 1..Len(networkPoints) |-> networkPoints[i].rssi],
                        [i \in 1..Len(networkPoints) |-> networkPoints[i].n])
          /\ LnCoverageStats(networkPoints).total = TotalN(networkPoints)
    /\ page = "indoor" =>
          /\ Partitions(ImStats(measurements),
                        [i \in 1..Len(measurements) |-> measurements[i].rssi],
                        [i \in 1..Len(measurements) |-> 1])
          /\ ImStats(measurements).total = Len(measurements)
    /\ page = "users" =>
          /\ Partitions(signalQuality(uaData),
                        [i \in 1..Len(UaWithRssi) |-> ToNumber(UaWithRssi[i].rssi)],
                        [i \in 1..Len(UaWithRssi) |-> 1])
          /\ signalQuality(uaData).total = Len(UaWithRssi)

\* The User Analysis page has counted a null, a missing and a boundary rssi
C11_Witness ==
    /\ page = "users" /\ ~uaLoading
    /\ uaData = << [body_position |-> "Bag", rssi |-> JsNull],
                   [body_position |-> "Bag", rssi |-> JsUndefined],
                   [body_position |-> "Hand", rssi |-> JsNumber(-70)] >>
    /\ signalQuality(uaData) = [excellent |-> 1, good |-> 1, fair |-> 0, poor |-> 0,
                                total |-> 2]

----------------------------------------------------------------------------
\* Body-position statistics (UserAnalysis.tsx 57-98, App.tsx 134-167) and
\* normalizePosition (part_002 41-70)

\* position.trim().toLowerCase() of the position texts of StatRecords
TrimLower(position) ==
    IF position = "Hand" \/ position = " hand " THEN "hand"
    ELSE IF position = "Bag" THEN "bag"
    ELSE position

\* lower.includes(word) for those texts
Includes(lower, word) ==
    \/ lower = word
    \/ lower = "handbag" /\ word \in {"hand", "bag"}

\* normalized.charAt(0).toUpperCase() + normalized.slice(1).toLowerCase()
Capitalized(position) ==
    IF TrimLower(position) = "wrist" THEN "Wrist"
    ELSE IF TrimLower(position) = "hand" THEN "Hand"
    ELSE IF TrimLower(position) = "bag" THEN "Bag"
    ELSE "Handbag"

PositionWords == <<"hand", "bag", "hips", "torso", "pocket", "backpack", "arm", "leg", "head">>

PositionNames == <<"Hand", "Bag", "Hips", "Torso", "Pocket", "Backpack", "Arm", "Leg", "Head">>

\* The first word from index i on that the text contains; 0 if none
RECURSIVE FirstIncluded(_, _)
FirstIncluded(lower, i) ==
    IF i > Len(PositionWords) THEN 0
    ELSE IF Includes(lower, PositionWords[i]) THEN i
    ELSE FirstIncluded(lower, i + 1)

\* normalizePosition (part_002 41-70)
normalizePosition(position) ==
    IF position = NoPosition \/ position = "" THEN "Other"
    ELSE LET lower == TrimLower(position)
         IN  IF \E i \in 1..Len(PositionWords) : lower = PositionWords[i]
             THEN PositionNames[CHOOSE i \in 1..Len(PositionWords) : lower = PositionWords[i]]
             ELSE IF lower = "hip" THEN "Hips"
             ELSE IF FirstIncluded(lower, 1) > 0
             THEN PositionNames[FirstIncluded(lower, 1)]
             ELSE Capitalized(position)

\* hasPosition && hasValidRssi (UserAnalysis.tsx 58-66)
UaKeeps(d) ==
    /\ d.body_position # NoPosition /\ d.body_position # ""
    /\ TrimLower(d.body_position) # ""
    /\ d.rssi.t = "number" /\ d.rssi.num # 0 /\ d.rssi.num < 0

\* d.body_position && d.rssi !== undefined (App.tsx 135)
VizKeeps(d) ==
    /\ d.body_position # NoPosition /\ d.body_position # ""
    /\ d.rssi # JsUndefined

\* The reduce (UserAnalysis.tsx 67-74, App.tsx 136-143) over the kept
\* records: the values pushed under each normalized position, in data order
GroupByPosition(kept) ==
    [ position \in {normalizePosition(kept[i].body_position) : i \in 1..Len(kept)} |->
        LET own == SelectSeq(kept, LAMBDA d : normalizePosition(d.body_position) = position)
        IN  [i \in 1..Len(own) |-> own[i].rssi] ]

\* One value put into a list sorted by a - b, after the values it does not
\* precede (the sort is stable)
RECURSIVE InsertAsc(_, _)
InsertAsc(sorted, v) ==
    IF sorted = <<>> THEN <<v>>
    ELSE IF ToNumber(sorted[Len(sorted)]) - ToNumber(v) > 0
         THEN Append(InsertAsc(SubSeq(sorted, 1, Len(sorted) - 1), v), sorted[Len(sorted)])
         ELSE Append(sorted, v)

\* [...nums].sort((a, b) => a - b)
RECURSIVE SortAsc(_)
SortAsc(nums) ==
    IF nums = <<>> THEN <<>>
    ELSE InsertAsc(SortAsc(SubSeq(nums, 1, Len(nums) - 1)), nums[Len(nums)])

\* sorted[Math.floor(sorted.length / 2)], with the 0-based index of the code
MedianOf(sorted) == sorted[(Len(sorted) \div 2) + 1]

\* The entry of bodyPositionStats for one position (UserAnalysis.tsx 81-95,
\* App.tsx 150-164): nums keeps every value that is not NaN, which is every
\* value a number or null
PositionStat(position, values) ==
    LET nums == SelectSeq(values, LAMBDA v : v.t \in {"number", "null"})
        sorted == SortAsc(nums)
    IN  [ position |-> position,
          mean     |-> [sum |-> RssisSum([i \in 1..Len(nums) |->
                                            [rssi |-> ToNumber(nums[i]), n |-> 1]]),
                        len |-> Len(nums)],
          min      |-> ToNumber(sorted[1]),
          max      |-> ToNumber(sorted[Len(sorted)]),
          median   |-> MedianOf(sorted),
          count    |-> Len(nums) ]

\* bodyPositionStats, by position: the positions with no number are dropped
BodyPositionStats(kept) ==
    LET grouped == GroupByPosition(kept)
        present == {position \in DOMAIN grouped :
                       \E i \in 1..Len(grouped[position]) :
                           grouped[position][i].t \in {"number", "null"}}
    IN  [position \in present |-> PositionStat(position, grouped[position])]

UaBodyPositionStats == BodyPositionStats(SelectSeq(uaData, UaKeeps))

VizBodyPositionStats == BodyPositionStats(SelectSeq(vizData, VizKeeps))

\* The k-th smallest of a list of numbers, by counting
OrderStatistic(numbers, k) ==
    CHOOSE v \in {numbers[i] : i \in 1..Len(numbers)} :
        /\ Cardinality({i \in 1..Len(numbers) : numbers[i] < v}) < k
        /\ Cardinality({i \in 1..Len(numbers) : numbers[i] <= v}) >= k

\* Twice the statistical median of a non-empty list of numbers: the middle
\* value counted twice, or the sum of the two middle values
TwiceMedian(numbers) ==
    OrderStatistic(numbers, (Len(numbers) + 1) \div 2)
        + OrderStatistic(numbers, (Len(numbers) \div 2) + 1)

\* The RSSI numbers of the records of a normalized position
NumbersAt(kept, position) ==
    LET own == SelectSeq(kept, LAMBDA d : /\ normalizePosition(d.body_position) = position
                                          /\ d.rssi.t = "number")
    IN  [i \in 1..Len(own) |-> own[i].rssi.num]

MediansAreStatistical(kept) ==
    \A position \in DOMAIN BodyPositionStats(kept) :
        NumbersAt(kept, position) # <<>> =>
            2 * ToNumber(BodyPositionStats(kept)[position].median)
                = TwiceMedian(NumbersAt(kept, position))

\* C12: for each body position the median reported by the User Analysis and
\* the Visualizations page is the statistical median of that position's RSSI
\* values, for odd and for even numbers of values.
C12_MedianIsStatistical ==
    /\ page = "users" => MediansAreStatistical(SelectSeq(uaData, UaKeeps))
    /\ page = "viz" => MediansAreStatistical(SelectSeq(vizData, VizKeeps))

\* The reported median is the statistical one when the position has an odd
\* number of values, all of them numbers
C12_MedianOfOddCounts ==
    /\ page = "users" =>
          \A position \in DOMAIN UaBodyPositionStats :
              UaBodyPositionStats[position].count % 2 = 1 =>
                  2 * ToNumber(UaBodyPositionStats[position].median)
                      = TwiceMedian(NumbersAt(SelectSeq(uaData, UaKeeps), position))
    /\ page = "viz" =>
          \A position \in DOMAIN VizBodyPositionStats :
              LET numbers == NumbersAt(SelectSeq(vizData, VizKeeps), position)
              IN  (Len(numbers) % 2 = 1 /\ Len(numbers) = VizBodyPositionStats[position].count) =>
                     2 * ToNumber(VizBodyPositionStats[position].median) = TwiceMedian(numbers)

----------------------------------------------------------------------------
\* What the Overview page renders (Overview.tsx 18-147, part_004 18-59)

\* A value in a boolean position
Truthy(v) ==
    CASE v.t = "object" -> TRUE
      [] v.t = "number" -> v.num # 0
      [] v.t = "string" -> v.str # <<>>
      [] OTHER -> FALSE

\* a ?? b
Nullish(a, b) == IF a.t \in {"null", "undefined"} THEN b ELSE a

\* defaultStats (Overview.tsx 27-38)
defaultStats ==
    [f \in SummaryFields |->
        IF f \in {"mean_rssi", "median_rssi"} THEN JsNumber(-90000) ELSE JsNumber(0)]

\* displayStats (Overview.tsx 41-52)
displayStats(stats) ==
    IF Truthy(stats)
    THEN [f \in SummaryFields |-> Nullish(stats.fields[f], defaultStats[f])]
    ELSE defaultStats

\* Variant: hasApiData as the truth value of stats
hasTruthyStats(stats) == Truthy(stats)

\* hasApiData (Overview.tsx 54)
hasApiData(stats) == stats # JsNull

\* A text that shows a number in groups of three digits: '184,142'
Grouped(n) ==
    [ kind |-> "digits", sep |-> ",",
      groups |-> IF n >= 1000 THEN <<n \div 1000, n % 1000>> ELSE <<n>> ]

\* n.toLocaleString() of a count below a million
ToLocaleString(n) == Grouped(n)

\* n.toString() of a count
NumberToString(n) == [kind |-> "digits", sep |-> "", groups |-> <<n>>]

\* `${x.toFixed(2)} dBm` for x in thousandths: the nearest hundredth, the
\* larger one of two equally near
ToFixed2dBm(x) == [kind |-> "fixed2", hundredths |-> (x + 5) \div 10, unit |-> " dBm"]

ToFixed2dBmTruncated(x) == [kind |-> "fixed2", hundredths |-> x \div 10, unit |-> " dBm"]

\* The metric tiles of Overview.tsx (111-147)
OverviewTiles(stats) ==
    [ total_records   |-> Grouped(184142),
      unique_cell_ids |-> NumberToString(353),
      mean_rssi       |-> ToFixed2dBm(displayStats(stats).mean_rssi.num) ]

\* What Overview.tsx renders
OverviewView(stats, isLoading) ==
    IF isLoading THEN [screen |-> "spinner"]
    ELSE [ screen  |-> "page",
           warning |-> ~hasApiData(stats),
           stats   |-> displayStats(stats),
           tiles   |-> OverviewTiles(stats) ]

\* What the Overview of part_004 renders (18-59): a missing field makes
\* the call of toLocaleString, toString or toFixed throw
Overview4View(stats, isLoading) ==
    IF isLoading THEN [screen |-> "spinner"]
    ELSE IF ~Truthy(stats) THEN [screen |-> "error"]
    ELSE IF \E f \in {"total_records", "unique_cell_ids", "mean_rssi", "recommended_towers"} :
                stats.fields[f].t # "number"
    THEN [screen |-> "crash"]
    ELSE [ screen |-> "page",
           tiles  |-> [ total_records   |-> ToLocaleString(stats.fields.total_records.num),
                        unique_cell_ids |-> NumberToString(stats.fields.unique_cell_ids.num),
                        mean_rssi       |-> ToFixed2dBm(stats.fields.mean_rssi.num),
                        recommended_towers |->
                            NumberToString(stats.fields.recommended_towers.num) ] ]

\* What is on the screen of the mounted Overview
OverviewRendered ==
    IF page = "overview" THEN OverviewView(ovStats, ovLoading)
    ELSE Overview4View(ovStats, ovLoading)

\* The number a text of digits shows
RECURSIVE ShownFrom(_, _)
ShownFrom(groups, i) ==
    IF i = 0 THEN 0 ELSE ShownFrom(groups, i - 1) * 1000 + groups[i]

ShownCount(text) == ShownFrom(text.groups, Len(text.groups))

\* The hundredth nearest to a number of thousandths
NearestHundredth(x) ==
    CHOOSE h \in (x \div 10)..(x \div 10 + 1) :
        \A g \in (x \div 10)..(x \div 10 + 1) :
            \/ Abs(10 * h - x) < Abs(10 * g - x)
            \/ Abs(10 * h - x) = Abs(10 * g - x) /\ h >= g

\* A tile shows the field of the summary, if the summary has the number
TileShows(tiles, stats, f) ==
    stats.fields[f].t = "number" =>
        IF f = "mean_rssi"
        THEN tiles[f].hundredths = NearestHundredth(stats.fields[f].num)
        ELSE ShownCount(tiles[f]) = stats.fields[f].num

\* C13: whenever GET /api/summary succeeded, the Total Records, Unique Cell
\* IDs and Mean RSSI tiles of the Overview page show the total_records,
\* unique_cell_ids and mean_rssi of the returned summary.
C13_TilesShowSummary ==
    (page \in {"overview", "overview4"} /\ ~ovLoading /\ ovStats.t = "object"
        /\ OverviewRendered.screen = "page")
        => \A f \in {"total_records", "unique_cell_ids", "mean_rssi"} :
              TileShows(OverviewRendered.tiles, ovStats, f)

\* The Mean RSSI tile shows the mean_rssi of the summary on both Overview
\* pages, and the Overview of part_004 shows all three values
C13_MeanTileAndPart004 ==
    (page \in {"overview", "overview4"} /\ ~ovLoading /\ ovStats.t = "object"
        /\ OverviewRendered.screen = "page")
        => /\ TileShows(OverviewRendered.tiles, ovStats, "mean_rssi")
           /\ page = "overview4" =>
                 \A f \in {"total_records", "unique_cell_ids"} :
                     TileShows(OverviewRendered.tiles, ovStats, f)

----------------------------------------------------------------------------
\* WiFiAnalyzer (WiFiAnalyzer.tsx 18-99) and GET /api/wifi (server.js 144-206)

MaxWifiFetches == 2      \* answers the WiFi page takes before it is left alone

\* The host of the data server: the airport command is missing or fails, or
\* prints what it finds; found names the lines of its output that match
\* (none when WiFi is off)
WifiHosts ==
    { [airport |-> "missing", found |-> {}, ssid |-> "", rssi |-> 0, bssid |-> "",
       channel |-> 0],
      [airport |-> "ok", found |-> {}, ssid |-> "", rssi |-> 0, bssid |-> "",
       channel |-> 0],
      [airport |-> "ok", found |-> {"ssid", "rssi", "bssid", "channel"},
       ssid |-> "HomeNet", rssi |-> -45, bssid |-> "a0:b1:c2:d3:e4:f5", channel |-> 6],
      [airport |-> "ok", found |-> {"ssid", "rssi", "bssid", "channel"},
       ssid |-> "Cafe", rssi |-> -80, bssid |-> "00:11:22:33:44:55", channel |-> 36],
      [airport |-> "ok", found |-> {"ssid", "rssi", "bssid", "channel"},
       ssid |-> "Cafe", rssi |-> -90, bssid |-> "00:11:22:33:44:55", channel |-> 36] }

\* The way to the server: it answers, the answer is not ok (a proxy without
\* the server behind it), or fetch rejects
WifiServers == {"up", "not ok", "unreachable"}

\* navigator.connection: absent, or its effectiveType and downlink
WifiConnections ==
    { [t |-> "undefined", effectiveType |-> "", downlink |-> 0],
      [t |-> "object", effectiveType |-> "4g", downlink |-> 10],
      [t |-> "object", effectiveType |-> "3g", downlink |-> 0] }

WifiRecord(ssid, bssid, signalStrength, frequency, channel, security, quality, speed,
           ipAddress) ==
    [ t |-> "object", ssid |-> ssid, bssid |-> bssid, signalStrength |-> signalStrength,
      frequency |-> frequency, channel |-> channel, security |-> security,
      quality |-> quality, speed |-> speed, ipAddress |-> ipAddress,
      subnet |-> "255.255.255.0", gateway |-> "192.168.1.1" ]

\* The quality of an rssi (server.js 168-171)
WifiQuality(rssi) ==
    IF rssi > -50 THEN "excellent"
    ELSE IF rssi > -70 THEN "good"
    ELSE IF rssi > -85 THEN "fair"
    ELSE "poor"

\* The body GET /api/wifi answers with on a host (server.js 151-201)
WifiRoute(host) ==
    IF host.airport = "ok"
    THEN LET ssid == IF "ssid" \in host.found THEN host.ssid ELSE "Unknown"
             rssi == IF "rssi" \in host.found THEN host.rssi ELSE -70
             bssid == IF "bssid" \in host.found THEN host.bssid ELSE "N/A"
             channel == IF "channel" \in host.found THEN host.channel ELSE 0
         IN  WifiRecord(ssid, bssid, rssi, IF channel <= 14 THEN 2400 ELSE 5000, channel,
                        "WPA2/WPA3", WifiQuality(rssi), <<150, " Mbps">>, "192.168.1.100")
    ELSE WifiRecord("Your WiFi Network", "XX:XX:XX:XX:XX:XX", -65, 2400, 6,
                    "WPA2/WPA3", "good", <<150, " Mbps">>, "192.168.1.100")

\* getSignalQuality (WiFiAnalyzer.tsx 101-106)
getSignalQuality(type) ==
    IF type = "4g" THEN "excellent"
    ELSE IF type = "3g" THEN "good"
    ELSE IF type = "2g" THEN "fair"
    ELSE "poor"

\* What fetchWiFiInfo will set (25-91): wifiInfo and error
WifiOutcome(host, server, connection) ==
    IF server = "up"
    THEN [info |-> WifiRoute(host), error |-> "<null>"]
    ELSE IF server = "not ok"
    THEN IF connection.t = "object"
         THEN [ info |-> WifiRecord("Current Network", "N/A",
                            IF connection.downlink # 0 THEN connection.downlink * 10
                            ELSE -50,
                            IF connection.effectiveType = "4g" THEN 2400 ELSE 5000,
                            0, "WPA2", getSignalQuality(connection.effectiveType),
                            <<connection.downlink, " Mbps">>, "Detecting..."),
                error |-> "<null>" ]
         ELSE [ info |-> WifiRecord("Your WiFi Network", "XX:XX:XX:XX:XX:XX", -65, 2400, 6,
                                    "WPA2/WPA3", "good", <<150, " Mbps">>, "192.168.1.100"),
                error |-> "<null>" ]
    ELSE [ info |-> WifiRecord("Demo Network", "AA:BB:CC:DD:EE:FF", -70, 2400, 1,
                               "WPA2", "good", <<100, " Mbps">>, "192.168.1.50"),
           error |-> "Failed to fetch" ]

\* The number of answers taken so far is kept in wifiSeen
WifiAnswers == IF wifiSeen.t = "none" THEN 0 ELSE wifiSeen.answers

\* fetchWiFiInfo is called, on mount and every 5 seconds (94-97): the spinner
\* is shown and the request leaves; the server answers from its host as it is
WifiRequest ==
    /\ wifiLoading' = TRUE
    /\ wifiPending' = [ t |-> "sent", outcome |-> WifiOutcome(wifiHost, wifiServer, wifiConnection),
                        host |-> wifiHost, server |-> wifiServer,
                        connection |-> wifiConnection ]
    /\ UNCHANGED <<wifiInfo, wifiError, wifiHost, wifiServer, wifiConnection, wifiSeen>>

\* A call of fetchWiFiInfo on the mounted page, at most MaxWifiFetches answers
fetchWiFiInfo ==
    /\ page = "wifi"
    /\ wifiPending.t = "none"
    /\ WifiAnswers < MaxWifiFetches
    /\ WifiRequest

\* The awaits of fetchWiFiInfo are over: setWifiInfo, setError, setLoading(false)
WifiSettles ==
    /\ page = "wifi"
    /\ wifiPending.t = "sent"
    /\ wifiInfo' = wifiPending.outcome.info
    /\ wifiError' = wifiPending.outcome.error
    /\ wifiLoading' = FALSE
    /\ wifiSeen' = [ t |-> "seen", host |-> wifiPending.host, server |-> wifiPending.server,
                     connection |-> wifiPending.connection, answers |-> WifiAnswers + 1 ]
    /\ wifiPending' = [t |-> "none"]
    /\ UNCHANGED <<wifiHost, wifiServer, wifiConnection>>

\* The host joins another network, loses WiFi, or the way to the server or the
\* browser's connection changes
WifiSurroundingsChange ==
    /\ page = "wifi"
    /\ \E h \in WifiHosts, sv \in WifiServers, c \in WifiConnections :
          /\ <<h, sv, c>> # <<wifiHost, wifiServer, wifiConnection>>
          /\ wifiHost' = h /\ wifiServer' = sv /\ wifiConnection' = c
    /\ UNCHANGED <<wifiInfo, wifiLoading, wifiError, wifiPending, wifiSeen>>

InitWifi ==
    /\ InitPlanner /\ KMeansIdle /\ page = "wifi" /\ LocalIdle /\ IndoorIdle /\ IoIdle
    /\ uaData = <<>> /\ uaSummary = 0 /\ uaLoading = TRUE
    /\ vizData = <<>> /\ vizLoading = TRUE
    /\ ovStats = JsNull /\ ovLoading = TRUE
    /\ DataIdle /\ RecIdle /\ IntervalIdle
    /\ wifiInfo = [t |-> "null"] /\ wifiLoading = TRUE /\ wifiError = "<null>"
    /\ wifiPending = [t |-> "none"] /\ wifiSeen = [t |-> "none"]
    /\ wifiHost \in WifiHosts /\ wifiServer \in WifiServers
    /\ wifiConnection \in WifiConnections

WifiFrame == UNCHANGED <<plannerVars, kmVars, page, lnVars, imVars, ioVars, uaVars, vizVars,
                         ovVars,
                         dataVars, recVars, intervalVars>>

NextWifi ==
    \/ fetchWiFiInfo /\ WifiFrame
    \/ WifiSettles /\ WifiFrame
    \/ WifiSurroundingsChange /\ WifiFrame

SpecWifi == InitWifi /\ [][NextWifi]_vars

\* C14: the WiFi analyzer shows simulated data only: what it displays does
\* not depend on the host system, so with any other WiFi state of the host,
\* everything else the same, it would display the same information.
C14_DisplayIndependentOfHost ==
    wifiSeen.t = "seen" =>
        \A h \in WifiHosts :
            wifiInfo = WifiOutcome(h, wifiSeen.server, wifiSeen.connection).info

\* Without an answer from the data server the display does not depend on
\* the host of the server
C14_IndependentWithoutServer ==
    (wifiSeen.t = "seen" /\ wifiSeen.server # "up") =>
        \A h \in WifiHosts :
            wifiInfo = WifiOutcome(h, wifiSeen.server, wifiSeen.connection).info

----------------------------------------------------------------------------
\* The refresh interval of WiFiAnalyzer (WiFiAnalyzer.tsx 22-98), in seconds.
\* An answer settles before the next call of fetchWiFiInfo is due.

\* setInterval(fetchWiFiInfo, 5000) (96)
WifiPeriod == 5
MaxWifiClock == 12

\* The interval is left running
KeepInterval(timer) == timer

\* clearInterval(interval) (97)
ClearInterval(timer) == NoTimer

\* The effect runs after the page is mounted: fetchWiFiInfo() (93) and
\* setInterval (96)
WifiEffect ==
    /\ page = "wifi"
    /\ wifiStarted = 0
    /\ wifiPending.t = "none"
    /\ WifiRequest
    /\ wifiTimer' = WifiPeriod
    /\ wifiClock' = 0
    /\ wifiStarted' = 1
    /\ UNCHANGED <<page, wifiLeft>>

\* The interval is due: it calls fetchWiFiInfo, whatever page is shown, and
\* is due again a period later
WifiIntervalFires ==
    /\ wifiTimer = 0
    /\ wifiPending.t = "none"
    /\ WifiRequest
    /\ wifiTimer' = WifiPeriod
    /\ wifiStarted' = wifiStarted + 1
    /\ UNCHANGED <<page, wifiClock, wifiLeft>>

\* A second passes, unless the interval is due
WifiTimePasses ==
    /\ wifiStarted > 0
    /\ wifiClock < MaxWifiClock
    /\ wifiTimer # 0
    /\ wifiClock' = wifiClock + 1
    /\ wifiTimer' = IF wifiTimer > 0 THEN wifiTimer - 1 ELSE wifiTimer
    /\ UNCHANGED <<page, wifiVars, wifiStarted, wifiLeft>>

\* The page is left: the cleanup of the effect runs (97)
WifiUnmount ==
    /\ page = "wifi"
    /\ wifiStarted > 0
    /\ page' = "overview"
    /\ wifiTimer' = ClearInterval(wifiTimer)
    /\ wifiLeft' = [t |-> "left", at |-> wifiClock, started |-> wifiStarted]
    /\ UNCHANGED <<wifiVars, wifiClock, wifiStarted>>

\* An answer arrives after the page was left: the setters of an unmounted
\* component change nothing
WifiLateAnswer ==
    /\ page # "wifi"
    /\ wifiPending.t = "sent"
    /\ wifiPending' = [t |-> "none"]
    /\ UNCHANGED <<page, wifiInfo, wifiLoading, wifiError, wifiHost, wifiServer,
                   wifiConnection, wifiSeen, intervalVars>>

IntervalFrame ==
    UNCHANGED <<plannerVars, kmVars, lnVars, imVars, ioVars, uaVars, vizVars, ovVars,
                dataVars, recVars>>

InitInterval == InitWifi

NextInterval ==
    \/ WifiEffect /\ IntervalFrame
    \/ WifiIntervalFires /\ IntervalFrame
    \/ WifiTimePasses /\ IntervalFrame
    \/ WifiSettles /\ WifiFrame
    \/ WifiUnmount /\ IntervalFrame
    \/ WifiLateAnswer /\ IntervalFrame

SpecInterval == InitInterval /\ [][NextInterval]_vars

\* C21: while the WiFi Analyzer page is mounted, fetchWiFiInfo has been called
\* once at mount and once per 5 seconds since; once the page is unmounted the
\* interval is cleared and no further call is made.
C21_RefreshWhileMounted ==
    /\ (page = "wifi" /\ wifiStarted > 0) =>
          /\ wifiTimer \in 0..WifiPeriod
          /\ WifiPeriod * (wifiStarted - 1) + (WifiPeriod - wifiTimer) = wifiClock
    /\ page # "wifi" =>
          /\ wifiTimer = NoTimer
          /\ wifiStarted = wifiLeft.started

\* The page was left after its second call and more than a period has passed
C21_Witness ==
    /\ page # "wifi"
    /\ wifiLeft.started = 2
    /\ wifiStarted = 2
    /\ wifiClock > wifiLeft.at + WifiPeriod

----------------------------------------------------------------------------
\* coverageStats of NetworkPlanner (NetworkPlanner.tsx 204-225)

\* (num / den * 100).toFixed(1) for num >= 0 and den > 0, in tenths of a
\* percent: the nearest tenth, the larger one of two equally near
ToFixed1(num, den) ==
    [digits |-> 1, tenths |-> (2000 * num + den) \div (2 * den)]

\* The text '0'
ZeroText == [digits |-> 0, tenths |-> 0]

\* Math.max
Max(a, b) == IF a >= b THEN a ELSE b

\* towerRecommendations.reduce((sum, tower) => sum + tower.estimatedCoverage, 0)
RECURSIVE EstimatedCovered(_, _)
EstimatedCovered(towers, i) ==
    IF i > Len(towers) THEN 0
    ELSE towers[i].estimatedCoverage + EstimatedCovered(towers, i + 1)

\* Variant: projectedCoverage without Math.min(100, ...)
ProjectedUncapped(totalPoints, weakPoints, estimatedCovered) ==
    IF totalPoints > 0
    THEN ToFixed1(totalPoints - weakPoints + estimatedCovered, totalPoints)
    ELSE ZeroText

\* projectedCoverage (221-222)
ProjectedCoverage(totalPoints, weakPoints, estimatedCovered) ==
    IF totalPoints > 0
    THEN IF totalPoints - weakPoints + estimatedCovered >= totalPoints
         THEN ToFixed1(1, 1)
         ELSE ToFixed1(totalPoints - weakPoints + estimatedCovered, totalPoints)
    ELSE ZeroText

\* coverageStats (204-225)
CoverageStats(dataset, threshold, towers) ==
    LET totalPoints == RunsWhere(dataset, [i \in 1..Len(dataset) |->
                           {"x", "y", "rssi"} \subseteq dataset[i].def], 1)
        weakPoints == RunsWhere(dataset, [i \in 1..Len(dataset) |->
                           /\ {"x", "y", "rssi"} \subseteq dataset[i].def
                           /\ dataset[i].rssi < threshold], 1)
        estimatedCovered == EstimatedCovered(towers, 1)
        improvement == IF estimatedCovered >= Max(1, weakPoints)
                       THEN ToFixed1(1, 1)
                       ELSE ToFixed1(estimatedCovered, Max(1, weakPoints))
    IN  [ totalPoints |-> totalPoints,
          weakPoints |-> weakPoints,
          weakPercentage |-> IF totalPoints > 0 THEN ToFixed1(weakPoints, totalPoints)
                             ELSE ZeroText,
          estimatedImprovement |-> improvement,
          currentCoverage |-> IF totalPoints > 0
                              THEN ToFixed1(totalPoints - weakPoints, totalPoints)
                              ELSE ZeroText,
          projectedCoverage |-> ProjectedCoverage(totalPoints, weakPoints, estimatedCovered) ]

\* coverageStats as rendered in the current state
coverageStats == CoverageStats(data, coverageThreshold, towerRecommendations)

\* C18: estimatedImprovement, projectedCoverage and currentCoverage of the
\* NetworkPlanner's coverageStats are percentages between 0 and 100, and
\* projectedCoverage is never less than currentCoverage.
C18_PercentagesInRange ==
    /\ coverageStats.estimatedImprovement.tenths \in 0..1000
    /\ coverageStats.projectedCoverage.tenths \in 0..1000
    /\ coverageStats.currentCoverage.tenths \in 0..1000
    /\ coverageStats.projectedCoverage.tenths >= coverageStats.currentCoverage.tenths

\* Towers whose estimated coverage exceeds the weak points stand next to
\* strong points: the projection is capped at 100 and above the current value
C18_Witness ==
    /\ ~loading
    /\ coverageStats.weakPoints > 0
    /\ coverageStats.totalPoints > coverageStats.weakPoints
    /\ EstimatedCovered(towerRecommendations, 1) > coverageStats.weakPoints
    /\ coverageStats.currentCoverage.tenths \in 1..999
    /\ coverageStats.projectedCoverage.tenths = 1000
    /\ coverageStats.estimatedImprovement.tenths = 1000

----------------------------------------------------------------------------
\* GET /api/data after the read of line 109 (server.js 110-125): the rows are
\* cut to 10000, rssi is normalised, and the rows are sent as JSON

MaxRowRuns == 2          \* runs of equal rows in the parsed file

\* The lengths of the runs tried, around the limit of 10000
RunLengths == {1, 4999, 10000}

\* A number that is NaN
JsNaN == [t |-> "NaN", num |-> 0, str |-> <<>>]

JsString(str) == [t |-> "string", num |-> 0, str |-> str]

\* The rssi and signal_strength of the rows tried, as parseCSV stores them: a
\* number, null, or a text that is not a number
RowValues ==
    { [rssi |-> JsNull, signal_strength |-> JsNumber(-70)],
      [rssi |-> JsNumber(0), signal_strength |-> JsNumber(-70)],
      [rssi |-> JsNumber(-85), signal_strength |-> JsNumber(-70)],
      [rssi |-> JsNull, signal_strength |-> JsNull],
      [rssi |-> JsNumber(0), signal_strength |-> JsString(<<"x">>)],
      [rssi |-> JsString(<<"x">>), signal_strength |-> JsNumber(-70)],
      [rssi |-> JsString(<<"-", "9", "d">>), signal_strength |-> JsNull],
      [rssi |-> JsNull, signal_strength |-> JsString(<<"-", "7", "d">>)],
      [rssi |-> JsNumber(0), signal_strength |-> JsNumber(0)] }

\* The rows of a file whose header has the given columns: a row has no
\* property for a column the header lacks; line is the place in the file
RowsOfFile(columns, values, lengths) ==
    [i \in 1..Len(values) |->
        [ line |-> i, n |-> lengths[i],
          rssi |-> IF "rssi" \in columns THEN values[i].rssi ELSE JsUndefined,
          signal_strength |-> IF "signal_strength" \in columns
                              THEN values[i].signal_strength ELSE JsUndefined ]]

\* The digits at the start of a text, from position i
RECURSIVE DigitsFrom(_, _)
DigitsFrom(str, i) ==
    IF i > Len(str) \/ str[i] \notin Digits THEN <<>>
    ELSE <<str[i]>> \o DigitsFrom(str, i + 1)

\* parseFloat(v) (116, 120): a number is turned into its text and back; of a
\* text the longest numeric prefix counts (sign and digits here); NaN if there
\* is none, as for null and undefined
ParseFloatOf(v) ==
    IF v.t = "number" THEN v
    ELSE IF v.t = "string"
    THEN LET negative == v.str # <<>> /\ v.str[1] = "-"
             digits == DigitsFrom(v.str, IF negative THEN 2 ELSE 1)
         IN  IF digits = <<>> THEN JsNaN
             ELSE JsNumber((IF negative THEN -1 ELSE 1) * ParseFloat(digits))
    ELSE JsNaN

\* !row.rssi || row.rssi === 0
RssiIsFalsy(v) == ~Truthy(v)

\* Variant: the first if of the map callback never taken
KeepRssi(row) == row

\* The first if of the map callback (115-117)
UseSignalStrength(row) ==
    IF /\ RssiIsFalsy(row.rssi)
       /\ row.signal_strength.t # "undefined" /\ row.signal_strength.t # "null"
    THEN [row EXCEPT !.rssi = ParseFloatOf(row.signal_strength)]
    ELSE row

\* The second if of the map callback (119-121)
EnsureNumber(row) ==
    IF row.rssi.t # "undefined" /\ row.rssi.t # "null"
    THEN [row EXCEPT !.rssi = ParseFloatOf(row.rssi)]
    ELSE row

\* The map callback (113-123)
ProcessRow(row) == EnsureNumber(UseSignalStrength(row))

\* JSON.stringify of a value in a row: NaN is written as null
ToJson(v) == IF v.t = "NaN" THEN JsNull ELSE v

\* res.json(processedRows) (125), as the client reads it
JsonRows(rows) ==
    [i \in 1..Len(rows) |->
        [rows[i] EXCEPT !.rssi = ToJson(@), !.signal_strength = ToJson(@)]]

DataLimit == 10000

\* Variant: the rows without .slice(0, 10000)
Unsliced(rows) == rows

\* parseCSV(data).slice(0, 10000) (110)
FirstRows(rows) == SliceRuns(rows, DataLimit)

\* Lines 110-125
DataBody(rows) ==
    LET sliced == FirstRows(rows)
    IN  JsonRows([i \in 1..Len(sliced) |-> ProcessRow(sliced[i])])

\* The file of the request was read and parsed
InitData ==
    /\ InitPlanner /\ KMeansIdle /\ page = "planner" /\ LocalIdle /\ IndoorIdle /\ IoIdle
    /\ MorePagesIdle /\ RecIdle /\ IntervalIdle
    /\ \E columns \in SUBSET {"rssi", "signal_strength"} :
       \E values \in SeqsUpTo(RowValues, MaxRowRuns) :
       \E lengths \in [1..Len(values) -> RunLengths] :
          fileRows = RowsOfFile(columns, values, lengths)
    /\ sentRows = <<>>
    /\ dataPc = "parsed"

\* The handler runs from line 110 to its res.json
DataRespond ==
    /\ dataPc = "parsed"
    /\ sentRows' = DataBody(fileRows)
    /\ dataPc' = "sent"
    /\ UNCHANGED fileRows

DataFrame ==
    UNCHANGED <<plannerVars, kmVars, page, lnVars, imVars, ioVars, uaVars, vizVars, ovVars,
                wifiVars, recVars, intervalVars>>

NextData == DataRespond /\ DataFrame

SpecData == InitData /\ [][NextData]_vars

\* The k-th row of an array kept as runs
RECURSIVE RunAt(_, _)
RunAt(runs, k) == IF k <= runs[1].n THEN runs[1] ELSE RunAt(Tail(runs), k - runs[1].n)

\* The places where one run ends and the next begins
RunEnds(runs) ==
    UNION { {TotalN(SubSeq(runs, 1, i)), TotalN(SubSeq(runs, 1, i)) + 1} : i \in 1..Len(runs) }

\* C16: the body of GET /api/data holds at most 10,000 rows: the first 10,000
\* data rows of the file, all of them when the file has fewer, in file order.
C16_AtMostFirstTenThousand ==
    dataPc = "sent" =>
        /\ TotalN(sentRows) <= 10000
        /\ TotalN(sentRows) = IF TotalN(fileRows) < 10000 THEN TotalN(fileRows) ELSE 10000
        /\ \A k \in ({1} \cup RunEnds(fileRows) \cup RunEnds(sentRows)) :
              k <= TotalN(sentRows) => RunAt(sentRows, k).line = RunAt(fileRows, k).line

\* A file of 10,001 rows was answered with its first 10,000
C16_Witness ==
    /\ dataPc = "sent"
    /\ TotalN(fileRows) = 10001
    /\ TotalN(sentRows) = 10000
    /\ Len(sentRows) = 2 /\ sentRows[2].line = 2

\* The number a value of the rows tried stands for; null if it stands for none
NumericValueOf(v) ==
    IF v.t = "number" THEN v
    ELSE IF v = JsString(<<"-", "7", "d">>) THEN JsNumber(-7)
    ELSE IF v = JsString(<<"-", "9", "d">>) THEN JsNumber(-9)
    ELSE JsNull

\* C17: in every row GET /api/data returns, an rssi that was missing, null
\* or 0 is replaced by the numeric value of a signal_strength that is present
\* and not null; an rssi that was a non-zero number is unchanged; and every
\* rssi returned that is not null is a number.
C17_RssiNormalised ==
    dataPc = "sent" =>
        \A i \in 1..Len(sentRows) :
            LET before == fileRows[i]
                after == sentRows[i]
            IN  /\ after.line = before.line
                /\ ( /\ before.rssi \in {JsUndefined, JsNull, JsNumber(0)}
                     /\ before.signal_strength.t \notin {"undefined", "null"} )
                      => after.rssi = NumericValueOf(before.signal_strength)
                /\ (before.rssi.t = "number" /\ before.rssi.num # 0)
                      => after.rssi = before.rssi
                /\ after.rssi.t \in {"number", "null", "undefined"}

\* A row with rssi 0 was answered with its signal_strength in the place of
\* the rssi, next to a row whose rssi was left as it was
C17_Witness ==
    /\ dataPc = "sent"
    /\ Len(sentRows) = 2
    /\ fileRows[1].rssi = JsNumber(0) /\ fileRows[1].signal_strength = JsNumber(-70)
    /\ sentRows[1].rssi = JsNumber(-70)
    /\ fileRows[2].rssi = JsNumber(-85) /\ fileRows[2].signal_strength = JsNumber(-70)
    /\ sentRows[2].rssi = JsNumber(-85)

----------------------------------------------------------------------------
\* The Overview page without a summary

\* The 'API connection unavailable' warning is on the screen
WarningShown ==
    /\ page = "overview"
    /\ OverviewView(ovStats, ovLoading).screen = "page"
    /\ OverviewView(ovStats, ovLoading).warning

\* The fields of the summary that are counts or percentages
CountFields == SummaryFields \ {"mean_rssi", "median_rssi"}

----------------------------------------------------------------------------
\* IndoorMapper: the recording effect and its interval in time (part_001
\* 34-78).  Time is counted in tenths of a second.

MaxWait == 7             \* time is let pass while recording has waited less than this
MaxTicks == 2            \* the interval is let fire while fewer measurements are kept

\* setInterval(..., 500)
TimerPeriod == 5

\* The texts of the room name field; a measurement taken with the empty text
\* has no room (61)
RoomNames == {"", "K"}

\* "Start Mapping" is clicked (125-128); the effect runs with isRecording
\* true and sets the interval (35-65)
StartRecording ==
    /\ handleStart
    /\ timerLeft' = TimerPeriod
    /\ waited' = 0
    /\ editedSince' = FALSE
    /\ UNCHANGED roomName

\* The interval fires (37-65) and stays set
IntervalFires ==
    /\ timerLeft = 0
    /\ Len(measurements) < MaxTicks
    /\ RecordTick
    /\ timerLeft' = TimerPeriod
    /\ waited' = 0
    /\ editedSince' = FALSE
    /\ UNCHANGED roomName

\* A tenth of a second passes while recording; the interval fires on time,
\* so no time passes once it is due
TimePasses ==
    /\ page = "indoor"
    /\ isRecording
    /\ timerLeft > 0
    /\ waited < MaxWait
    /\ timerLeft' = timerLeft - 1
    /\ waited' = waited + 1
    /\ UNCHANGED <<imVars, roomName, editedSince>>

\* The room name field is edited (198).  roomName is a dependency of the
\* effect (78): its cleanup clears the interval (73-77) and the effect runs
\* again, setting a new interval when recording (35-65)
SetRoomName ==
    /\ page = "indoor"
    /\ \E name \in RoomNames \ {roomName} : roomName' = name
    /\ timerLeft' = IF isRecording THEN TimerPeriod ELSE 0
    /\ editedSince' = isRecording
    /\ UNCHANGED <<imVars, waited>>

\* "Stop" is clicked (130-132); the effect clears the interval (66-70)
StopRecording ==
    /\ handleStop
    /\ timerLeft' = 0
    /\ waited' = 0
    /\ editedSince' = FALSE
    /\ UNCHANGED roomName

\* "Clear" is clicked (134-139)
ClearRecording ==
    /\ handleClear
    /\ UNCHANGED recVars

InitRecording ==
    /\ InitPlanner /\ KMeansIdle /\ page = "indoor" /\ LocalIdle /\ IndoorIdle /\ IoIdle
    /\ FurtherIdle

RecFrame ==
    UNCHANGED <<plannerVars, kmVars, page, lnVars, ioVars, uaVars, vizVars, ovVars, wifiVars,
                dataVars, intervalVars>>

NextRecording ==
    \/ StartRecording /\ RecFrame
    \/ IntervalFires /\ RecFrame
    \/ TimePasses /\ RecFrame
    \/ SetRoomName /\ RecFrame
    \/ StopRecording /\ RecFrame
    \/ ClearRecording /\ RecFrame

SpecRecording == InitRecording /\ [][NextRecording]_vars

\* C20: while recording stays on, a measurement is recorded every 500 ms:
\* recording never goes longer than one timer period without a new
\* measurement, also while the room name is edited.
C20_MeasurementEveryPeriod ==
    isRecording => waited <= TimerPeriod

\* Recording that goes without an edit of the room name never waits longer
\* than one timer period for a measurement, and every measurement carries a
\* room name of the field
C20_EveryPeriodWithoutEdits ==
    /\ (isRecording /\ ~editedSince) => waited <= TimerPeriod
    /\ \A i \in 1..Len(measurements) : measurements[i].room \in RoomNames


-----------------------------------------------------------------------------
\* The tower sites of the coverage strategy (NetworkPlanner.tsx 165-201)

\* The squared distance between two towers at grid origins
TowerDist2(a, b) == (a.xn - b.xn) * (a.xn - b.xn) + (a.yn - b.yn) * (a.yn - b.yn)

\* Tower t stands at the origin of a gap cell
AtGapOrigin(t) ==
    /\ t.d = 1
    /\ \E i \in 1..Len(coverageGaps) : coverageGaps[i].x = t.xn /\ coverageGaps[i].y = t.yn

\* C22: in the coverage strategy every tower is at the origin of a gap cell
\* and any two towers are at distance at least 4 from each other.
C22_CoverageSitesApart ==
    selectedAlgorithm = "coverage" =>
        LET towers == towerRecommendations
        IN  /\ \A i \in 1..Len(towers) : AtGapOrigin(towers[i])
            /\ \A i, j \in 1..Len(towers) :
                  i # j => TowerDist2(towers[i], towers[j]) >= CoverRadius * CoverRadius

\* Three gap cells in a row, two units apart: the middle one was passed over
\* and the outer two, exactly 4 apart, both carry a tower
C22_Witness ==
    /\ selectedAlgorithm = "coverage"
    /\ Len(coverageGaps) = 3
    /\ towerCount >= 3
    /\ Len(towerRecommendations) = 2
    /\ TowerDist2(towerRecommendations[1], towerRecommendations[2]) = CoverRadius * CoverRadius


-----------------------------------------------------------------------------
\* The centroids of the k-means strategy (NetworkPlanner.tsx 100-136)

\* Position c lies in the bounding box of the gap cells
InGapBox(c) ==
    /\ \E least, most \in 1..Len(coverageGaps) :
        /\ coverageGaps[least].x * c.d <= c.xn /\ c.xn <= coverageGaps[most].x * c.d
    /\ \E least, most \in 1..Len(coverageGaps) :
        /\ coverageGaps[least].y * c.d <= c.yn /\ c.yn <= coverageGaps[most].y * c.d

CentroidsInGapBox ==
    kmPc \in {"loop", "update"} =>
        \A idx \in 1..Len(kmCentroids) : kmCentroids[idx].d > 0 /\ InGapBox(kmCentroids[idx])

\* The update half of a round leaves the centroid of an empty cluster alone
EmptyClusterKeepsCentroid ==
    kmPc = "update" =>
        \A idx \in 1..Len(kmCentroids) :
            Len(kmClusters[idx]) = 0 => kmCentroids'[idx] = kmCentroids[idx]

\* C23: in the k-means strategy every centroid lies inside the bounding box
\* of the gap cells after every round, and a centroid whose cluster is empty
\* in a round keeps its previous position.
C23_CentroidsStayInBox == []CentroidsInGapBox /\ [][EmptyClusterKeepsCentroid]_vars

\* A round has just ended in which a cluster was empty while another centroid
\* stands strictly inside the box, off the grid
C23_Witness ==
    /\ kmPc = "loop"
    /\ kmIter > 0
    /\ \E idx \in 1..Len(kmCentroids) : Len(kmClusters[idx]) = 0
    /\ \E idx \in 1..Len(kmCentroids) : kmCentroids[idx].d > 1


-----------------------------------------------------------------------------
\* The paths the data server reads (server.js 7-15, 91-109, 132-136).  A path
\* is the sequence of its segments from the root; the :user parameter is the
\* decoded text of one URL segment, given by its parts between slashes.

MaxPathRequests == 2     \* requests received by the server
MaxMissing == 2          \* files of the model that do not exist

\* path.normalize on an absolute path: '.' and empty parts are dropped and
\* '..' takes the last segment away, if there is one
RECURSIVE Normalize(_, _)
Normalize(done, parts) ==
    IF parts = <<>> THEN done
    ELSE IF Head(parts) \in {".", ""} THEN Normalize(done, Tail(parts))
    ELSE IF Head(parts) = ".."
         THEN Normalize(IF done = <<>> THEN done ELSE SubSeq(done, 1, Len(done) - 1), Tail(parts))
    ELSE Normalize(Append(done, Head(parts)), Tail(parts))

\* path.join (4) of an absolute path with further parts
Join(base, parts) == Normalize(<<>>, base \o parts)

\* dirname(fileURLToPath(import.meta.url)) (7-8): the directory of server.js
Dirname == <<"srv", "dashboard">>

\* join(__dirname, '..', 'cellular_planning_results') (15)
DATA_DIR == Join(Dirname, <<"..", "cellular_planning_results">>)

\* The :user parameter left out
NoSegment == <<>>

\* The values of the :user parameter tried: a user folder, 'all', and texts
\* made of dot segments ('..%2Fdashboard' in the URL is '../dashboard' in
\* req.params)
PathUsers ==
    { NoSegment, <<"all">>, <<"User1">>, <<".">>, <<"User1", "..">>, <<"..">>,
      <<"..", "dashboard">> }

\* user && user !== 'all' (96)
PathNamesUser(user) == user # NoSegment /\ user # <<"all">>

LocationPath == Join(DATA_DIR, <<"cellular_merged_with_location.csv">>)
CombinedPath == Join(DATA_DIR, <<"all_users_combined.csv">>)

\* filePath of /api/data before its first read (96-101) and of
\* /api/user/:user/summary (135)
PathOf(route, user) ==
    IF route = "data"
    THEN IF PathNamesUser(user)
         THEN Join(DATA_DIR, user \o <<"processed_data.csv">>)
         ELSE LocationPath
    ELSE Join(DATA_DIR, user \o <<"coverage_summary.csv">>)

PathRoutes == {"data", "usersummary"}

\* The files a request of the model can ask for
PathFiles ==
    {CombinedPath} \cup
    { PathOf(route, user) : route \in PathRoutes, user \in PathUsers \ {NoSegment} } \cup
    { PathOf("data", NoSegment) }

\* Path p lies below directory dir
IsDescendant(p, dir) == Len(p) > Len(dir) /\ SubSeq(p, 1, Len(dir)) = dir

\* A request arrives and its handler runs to its first await (91-103, 132-136)
PathReceive(route, user) ==
    /\ Len(requests) < MaxPathRequests
    /\ requests' = Append(requests,
          [route |-> route, user |-> user,
           pc |-> IF route = "data" /\ ~PathNamesUser(user) THEN "probe" ELSE "read",
           filePath |-> PathOf(route, user),
           reads |-> <<>>,
           status |-> 0])
    /\ UNCHANGED <<files, calls, csvText, csvRows, csvPc>>

\* app.get('/api/data/:user?') (91-130)
PathData == \E user \in PathUsers : PathReceive("data", user)

\* app.get('/api/user/:user/summary') (132-142)
PathUserSummary == \E user \in PathUsers \ {NoSegment} : PathReceive("usersummary", user)

\* The probe of /api/data (102-106)
PathProbe ==
    /\ \E i \in 1..Len(requests) :
          /\ requests[i].pc = "probe"
          /\ requests' = [requests EXCEPT
                ![i].pc = "read",
                ![i].reads = Append(@, requests[i].filePath),
                ![i].filePath = IF LocationPath \in files THEN LocationPath ELSE CombinedPath]
    /\ UNCHANGED <<files, calls, csvText, csvRows, csvPc>>

\* readFile(filePath, 'utf-8') (109, 136) and the answer: the rows of the
\* file, or 404 from the catch block
PathRead ==
    /\ \E i \in 1..Len(requests) :
          /\ requests[i].pc = "read"
          /\ requests' = [requests EXCEPT
                ![i].pc = "done",
                ![i].reads = Append(@, requests[i].filePath),
                ![i].status = IF requests[i].filePath \in files THEN 200 ELSE 404]
    /\ UNCHANGED <<files, calls, csvText, csvRows, csvPc>>

\* The server starts on a file system in which all but a few of the files
\* exist; files is the set of the paths that can be read
InitPaths ==
    /\ PagesIdle
    /\ calls = <<>>
    /\ files \in { S \in SUBSET PathFiles : Cardinality(PathFiles \ S) <= MaxMissing }
    /\ requests = <<>>
    /\ csvText = <<>> /\ csvRows = <<>> /\ csvPc = "idle"

NextPaths ==
    \/ PathData /\ PagesFrame
    \/ PathUserSummary /\ PagesFrame
    \/ PathProbe /\ PagesFrame
    \/ PathRead /\ PagesFrame

SpecPaths == InitPaths /\ [][NextPaths]_vars

\* The paths read so far in answer to request i
ReadsOf(i) == { requests[i].reads[j] : j \in 1..Len(requests[i].reads) }

\* C24: every file the data server reads in answer to a request lies inside
\* the data directory, whatever the value of the :user parameter.
C24_ReadsInsideDataDir ==
    \A i \in 1..Len(requests) : \A p \in ReadsOf(i) : IsDescendant(p, DATA_DIR)

\* The text of the parameter has a dot segment or a slash in it
HasDotOrSlash(user) == Len(user) > 1 \/ (Len(user) = 1 /\ user[1] \in {".", "..", ""})

\* For a :user parameter that is a plain name, and without one, every file
\* read lies inside the data directory.
C24_PlainNamesStayInside ==
    \A i \in 1..Len(requests) :
        ~HasDotOrSlash(requests[i].user) =>
            \A p \in ReadsOf(i) : IsDescendant(p, DATA_DIR)

\* A request for a user folder was answered with the rows of its file
C24_PlainWitness ==
    \E i \in 1..Len(requests) :
        /\ requests[i].user = <<"User1">>
        /\ requests[i].pc = "done"
        /\ requests[i].status = 200

====
